---- MODULE Spec2Model ----
(***************************************************************************)
(* State-machine model of the two on-chain ledgers of fee-delegate-bridge: *)
(*   Agent            (src/src/Agent.sol)      gas-triggered bridge        *)
(*   LimitOrderAgent  (src/unnamed/part_014)   limit-order book            *)
(*                                                                         *)
(* One behaviour exercises one deployed contract (variable contract); the  *)
(* two contracts share no storage and never call each other.               *)
(*                                                                         *)
(* In Agent, ETH is counted in units of 0.01 ether, so 0.1 ether is 10.    *)
(* A transaction is a stack of call frames: an external call made by the   *)
(* contract (ENDPOINT.lzSend, payable(..).transfer) leaves a frame on the  *)
(* stack until the callee returns or reverts.  A revert restores the       *)
(* storage snapshot taken when the frame's call began (EVM semantics).     *)
(* lzSend forwards all gas, so the callee may call back into the contract  *)
(* while the frame is open; transfer forwards 2300 gas, under which no     *)
(* call back into the contract can run, so the receiver only accepts or    *)
(* rejects.                                                                *)
(***************************************************************************)
EXTENDS Integers, Sequences, FiniteSets, TLC

\* ------------------------------------------------------------------ bounds
MaxBalance == 20        \* ETH the contract may hold (deposits stop above it)
MaxTime == 2            \* block.timestamp ranges over 1..MaxTime
MaxDepth == 2           \* open call frames (1 = no re-entrancy)
MaxNested == 1          \* calls the transport makes back into Agent per lzSend
MaxOrders == 1          \* orders created in all
MaxLoDeposit == 1       \* a deposit slot is not topped up above this by deposit/receive

\* ------------------------------------------------------------- input sets
Users == {"u1", "u2"}
Sessions == {"s1"}
Addr == Users \cup Sessions
Null == "0x0"                         \* address(0)
ThresholdInputs == {0, 40, 70}        \* setGasThreshold arguments
DepositInputs == {0, 5, 10}           \* msg.value of deposit()
WithdrawInputs == {0, 5, 10}          \* withdraw arguments
PayInputs == {1, 3}                   \* msg.value of checkGasAndBridge
\* authorizeSession / revokeSession arguments of a caller: the null address,
\* the caller itself and the session key
SessionInputs(caller) == {Null, caller, "s1"}
QuoteFees == {1, 2}                   \* nativeFee answers of ENDPOINT.quote
Readings == {0, 1, 39, 40, 41, 50, 69, 70, 71}  \* gas readings for checkGas

VARIABLES
  contract,             \* which contract this behaviour exercises
  now,                  \* block.timestamp
  stack,                \* open call frames, innermost first
  last,                 \* outcome of the most recent Agent call that passed its
                        \* require checks (a rejected call leaves no trace)
  \* ---- Agent storage
  gasThresholds,        \* address -> uint256
  authorizedSessions,   \* user -> session -> bool
  sessionAuthorizedAt,  \* user -> session -> timestamp
  deposits,             \* address -> uint256
  \* ---- Agent: ETH balance and log
  agentBalance,         \* address(agent).balance
  bridgeInitiated,      \* user -> number of BridgeInitiated events
  \* ---- Agent: ETH that crossed the contract boundary on a user's account:
  \* paid in by deposit(), minus paid out by withdraw, minus committed to a
  \* bridge
  credit,               \* user -> net ETH
  \* ---- LimitOrderAgent storage
  loOwner,              \* owner
  mockPrice,            \* mockPrice, in units of 1e18
  orders,               \* user -> orderId -> LimitOrder
  orderCount,           \* user -> uint256
  loAuthorizedSessions, \* user -> session -> bool
  loDeposits,           \* user -> token -> uint256
  totalOrdersCreated,
  totalOrdersExecuted,
  \* ---- LimitOrderAgent: ETH balance, and executions per order
  loBalance,            \* address(limitOrderAgent).balance
  executions            \* user -> orderId -> number of successful executions

agentVars == <<gasThresholds, authorizedSessions, sessionAuthorizedAt, deposits,
               agentBalance, bridgeInitiated, credit>>
loVars == <<loOwner, mockPrice, orders, orderCount, loAuthorizedSessions, loDeposits,
            totalOrdersCreated, totalOrdersExecuted, loBalance, executions>>
vars == <<contract, now, stack, last, agentVars, loVars>>

\* ---------------------------------------------------------------- Agent
\* Agent.getMockGas
getMockGas == 50

\* Agent.checkGasAndBridge: uint256 amountToBridge = 0.1 ether
AmountToBridge == 10

\* Variant of ShouldTrigger: the comparison the other way round
ShouldTrigger_Inverted(currentGasGwei, userThreshold) ==
  currentGasGwei > userThreshold

\* Agent.checkGas, the comparison
ShouldTrigger(currentGasGwei, userThreshold) ==
  (userThreshold > 0) /\ (currentGasGwei < userThreshold)

\* GAS_ORACLE.latestRoundData(): block.timestamp - updatedAt, the age in
\* minutes of the reading the oracle reports
OracleAgeInputs == {0, 5, 6, 10}

\* Agent.checkGas, its revert reason given the age of the oracle's reading:
\* the function takes getMockGas() and never calls GAS_ORACLE, so it has no
\* require and returns for every reading.
CheckGasError(oracleAge) == "ok"

\* Agent.checkGas
checkGas(user) ==
  [currentGasGwei |-> getMockGas,
   shouldTrigger |-> ShouldTrigger(getMockGas, gasThresholds[user])]

\* Agent.getBridgeStatus
getBridgeStatus(user, sessionAccount) ==
  [hasThreshold |-> gasThresholds[user] > 0,
   isAuthorized |-> authorizedSessions[user][sessionAccount],
   shouldTrigger |-> checkGas(user).shouldTrigger,
   currentGasGwei |-> checkGas(user).currentGasGwei]

\* Agent.isSessionAuthorized
isSessionAuthorized(user, sessionAccount) == authorizedSessions[user][sessionAccount]

\* Agent.getDeposit / Agent.getGasThreshold
getDeposit(user) == deposits[user]
getGasThreshold(user) == gasThresholds[user]

\* Storage snapshot taken when a call begins; a revert restores it.
AgentSnapshot ==
  [gasThresholds |-> gasThresholds, authorizedSessions |-> authorizedSessions,
   sessionAuthorizedAt |-> sessionAuthorizedAt, deposits |-> deposits,
   agentBalance |-> agentBalance, bridgeInitiated |-> bridgeInitiated,
   credit |-> credit]

\* Variant of RevertTo: the deposits are not restored
RevertTo_KeepDebit(snap) ==
  /\ gasThresholds' = snap.gasThresholds
  /\ authorizedSessions' = snap.authorizedSessions
  /\ sessionAuthorizedAt' = snap.sessionAuthorizedAt
  /\ deposits' = deposits
  /\ agentBalance' = snap.agentBalance
  /\ bridgeInitiated' = snap.bridgeInitiated
  /\ credit' = snap.credit

\* A revert of a frame: every effect since the frame's call began is undone.
RevertTo(snap) ==
  /\ gasThresholds' = snap.gasThresholds
  /\ authorizedSessions' = snap.authorizedSessions
  /\ sessionAuthorizedAt' = snap.sessionAuthorizedAt
  /\ deposits' = snap.deposits
  /\ agentBalance' = snap.agentBalance
  /\ bridgeInitiated' = snap.bridgeInitiated
  /\ credit' = snap.credit

\* arg is the order id of an order operation, 0 otherwise
Result(op, user, caller, arg, err) ==
  [op |-> op, user |-> user, caller |-> caller, arg |-> arg, err |-> err]

\* A call into Agent can start at the top level (no open frame), or from the
\* transport while ENDPOINT.lzSend is executing (re-entrancy).
AgentCallable ==
  /\ contract = "Agent"
  /\ \/ stack = <<>>
     \/ /\ stack # <<>>
        /\ Len(stack) < MaxDepth
        /\ Head(stack).pc = "lzSend"
        /\ Head(stack).nested < MaxNested

\* The open frames once a call has started: the frame whose callee made the
\* call has one more nested call.
Entered ==
  IF stack = <<>> THEN stack
  ELSE <<[Head(stack) EXCEPT !.nested = @ + 1]>> \o Tail(stack)

\* Variant of SetGasThresholdError: a threshold of 1 is refused as well
SetGasThresholdError_AtLeastTwo(threshold) ==
  IF ~(threshold > 1) THEN "Threshold must be greater than zero" ELSE "ok"

\* Agent.setGasThreshold, the require statement
SetGasThresholdError(threshold) ==
  IF ~(threshold > 0) THEN "Threshold must be greater than zero" ELSE "ok"

\* Agent.setGasThreshold
SetGasThreshold(caller, threshold) ==
  /\ AgentCallable
  /\ stack' = Entered
  /\ IF SetGasThresholdError(threshold) = "ok"
     THEN /\ gasThresholds' = [gasThresholds EXCEPT ![caller] = threshold]
          /\ last' = Result("setGasThreshold", caller, caller, 0, "ok")
     ELSE UNCHANGED <<gasThresholds, last>>
  /\ UNCHANGED <<loVars, contract, now, authorizedSessions, sessionAuthorizedAt,
                 deposits, agentBalance, bridgeInitiated, credit>>

\* Agent.deposit, the require statement
DepositError(value) ==
  IF ~(value > 0) THEN "Must deposit at least some ETH" ELSE "ok"

\* Variant of Deposit: the payment replaces the balance instead of adding to it
Deposit_Overwrite(caller, value) ==
  /\ AgentCallable
  /\ agentBalance + value <= MaxBalance
  /\ stack' = Entered
  /\ IF DepositError(value) = "ok"
     THEN /\ deposits' = [deposits EXCEPT ![caller] = value]
          /\ agentBalance' = agentBalance + value
          /\ credit' = [credit EXCEPT ![caller] = @ + value]
          /\ last' = Result("deposit", caller, caller, 0, "ok")
     ELSE UNCHANGED <<deposits, agentBalance, credit, last>>
  /\ UNCHANGED <<loVars, contract, now, gasThresholds, authorizedSessions,
                 sessionAuthorizedAt, bridgeInitiated>>

\* Agent.deposit
Deposit(caller, value) ==
  /\ AgentCallable
  /\ agentBalance + value <= MaxBalance
  /\ stack' = Entered
  /\ IF DepositError(value) = "ok"
     THEN /\ deposits' = [deposits EXCEPT ![caller] = @ + value]
          /\ agentBalance' = agentBalance + value
          /\ credit' = [credit EXCEPT ![caller] = @ + value]
          /\ last' = Result("deposit", caller, caller, 0, "ok")
     ELSE UNCHANGED <<deposits, agentBalance, credit, last>>
  /\ UNCHANGED <<loVars, contract, now, gasThresholds, authorizedSessions,
                 sessionAuthorizedAt, bridgeInitiated>>

\* Variant of WithdrawError: the balance is not checked
WithdrawError_NoBalanceCheck(caller, amount) ==
  IF ~(amount > 0) THEN "Must withdraw something" ELSE "ok"

\* Agent.withdraw, the two require statements
WithdrawError(caller, amount) ==
  IF ~(amount > 0) THEN "Must withdraw something"
  ELSE IF ~(deposits[caller] >= amount) THEN "Insufficient deposit balance"
  ELSE "ok"

\* Agent.withdraw up to the payout: the checks, the debit, then
\* payable(msg.sender).transfer(_amount) is in flight.
Withdraw(caller, amount) ==
  /\ AgentCallable
  /\ IF WithdrawError(caller, amount) = "ok"
     THEN /\ deposits' = [deposits EXCEPT ![caller] = @ - amount]
          /\ agentBalance' = agentBalance - amount
          /\ credit' = [credit EXCEPT ![caller] = @ - amount]
          /\ stack' = <<[op |-> "withdraw", pc |-> "payout", user |-> caller,
                         caller |-> caller, value |-> amount, fee |-> 0,
                         nested |-> 0, snap |-> AgentSnapshot]>> \o Entered
     ELSE /\ stack' = Entered
          /\ UNCHANGED <<deposits, agentBalance, credit>>
  /\ UNCHANGED <<loVars, contract, now, last, gasThresholds, authorizedSessions,
                 sessionAuthorizedAt, bridgeInitiated>>

\* Agent.withdraw: the receiver accepts the transfer; Withdrawn is emitted.
WithdrawPayoutAccepted ==
  /\ contract = "Agent"
  /\ stack # <<>>
  /\ Head(stack).op = "withdraw"
  /\ stack' = Tail(stack)
  /\ last' = Result("withdraw", Head(stack).user, Head(stack).caller, 0, "ok")
  /\ UNCHANGED <<loVars, contract, now, agentVars>>

\* Agent.withdraw: the receiver rejects the transfer; transfer reverts the call.
WithdrawPayoutRejected ==
  /\ contract = "Agent"
  /\ stack # <<>>
  /\ Head(stack).op = "withdraw"
  /\ RevertTo(Head(stack).snap)
  /\ stack' = Tail(stack)
  /\ last' = Result("withdraw", Head(stack).user, Head(stack).caller, 0, "Payout failed")
  /\ UNCHANGED <<loVars, contract, now>>

\* Variant of AuthorizeSessionError: the caller may name itself
AuthorizeSessionError_NoSelfCheck(caller, sessionAccount) ==
  IF ~(sessionAccount # Null) THEN "Invalid session address"
  ELSE "ok"

\* Variant of AuthorizeSessionError: a grant that is already true is refused
AuthorizeSessionError_RejectRepeat(caller, sessionAccount) ==
  IF ~(sessionAccount # Null) THEN "Invalid session address"
  ELSE IF ~(sessionAccount # caller) THEN "Cannot authorize self as session"
  ELSE IF authorizedSessions[caller][sessionAccount] THEN "Session already authorized"
  ELSE "ok"

\* Agent.authorizeSession, the two require statements
AuthorizeSessionError(caller, sessionAccount) ==
  IF ~(sessionAccount # Null) THEN "Invalid session address"
  ELSE IF ~(sessionAccount # caller) THEN "Cannot authorize self as session"
  ELSE "ok"

\* Agent.authorizeSession
AuthorizeSession(caller, sessionAccount) ==
  /\ AgentCallable
  /\ stack' = Entered
  /\ IF AuthorizeSessionError(caller, sessionAccount) = "ok"
     THEN /\ authorizedSessions' =
               [authorizedSessions EXCEPT ![caller][sessionAccount] = TRUE]
          /\ sessionAuthorizedAt' =
               [sessionAuthorizedAt EXCEPT ![caller][sessionAccount] = now]
          /\ last' = Result("authorizeSession", caller, caller, 0, "ok")
     ELSE UNCHANGED <<authorizedSessions, sessionAuthorizedAt, last>>
  /\ UNCHANGED <<loVars, contract, now, gasThresholds, deposits, agentBalance,
                 bridgeInitiated, credit>>

\* Variant of RevokeSessionError: the grant is not required
RevokeSessionError_None(caller, sessionAccount) == "ok"

\* Agent.revokeSession, the require statement
RevokeSessionError(caller, sessionAccount) ==
  IF ~authorizedSessions[caller][sessionAccount] THEN "Session not authorized"
  ELSE "ok"

\* Variant of RevokeSession: every grant of the caller is cleared
RevokeSession_AllOfCaller(caller, sessionAccount) ==
  /\ AgentCallable
  /\ stack' = Entered
  /\ IF RevokeSessionError(caller, sessionAccount) = "ok"
     THEN /\ authorizedSessions' =
               [authorizedSessions EXCEPT
                  ![caller] = [x \in DOMAIN authorizedSessions[caller] |-> FALSE]]
          /\ last' = Result("revokeSession", caller, caller, 0, "ok")
     ELSE UNCHANGED <<authorizedSessions, last>>
  /\ UNCHANGED <<loVars, contract, now, gasThresholds, sessionAuthorizedAt, deposits,
                 agentBalance, bridgeInitiated, credit>>

\* Agent.revokeSession
RevokeSession(caller, sessionAccount) ==
  /\ AgentCallable
  /\ stack' = Entered
  /\ IF RevokeSessionError(caller, sessionAccount) = "ok"
     THEN /\ authorizedSessions' =
               [authorizedSessions EXCEPT ![caller][sessionAccount] = FALSE]
          /\ last' = Result("revokeSession", caller, caller, 0, "ok")
     ELSE UNCHANGED <<authorizedSessions, last>>
  /\ UNCHANGED <<loVars, contract, now, gasThresholds, sessionAuthorizedAt, deposits,
                 agentBalance, bridgeInitiated, credit>>

\* Variant of BridgeError: the fee is checked before the funds
BridgeError_FeeBeforeFunds(user, caller, value, nativeFee) ==
  IF ~checkGas(user).shouldTrigger THEN "No trigger: gas below threshold"
  ELSE IF ~authorizedSessions[user][caller] THEN "Caller not authorized session"
  ELSE IF ~(value >= nativeFee) THEN "Insufficient LZ fee"
  ELSE IF ~(deposits[user] >= AmountToBridge) THEN "Insufficient deposit for bridge"
  ELSE "ok"

\* Variant of BridgeError: the caller is not checked
BridgeError_NoAuthCheck(user, caller, value, nativeFee) ==
  IF ~checkGas(user).shouldTrigger THEN "No trigger: gas below threshold"
  ELSE IF ~(deposits[user] >= AmountToBridge) THEN "Insufficient deposit for bridge"
  ELSE IF ~(value >= nativeFee) THEN "Insufficient LZ fee"
  ELSE "ok"

\* Variant of BridgeError: the fee is not checked
BridgeError_NoFeeCheck(user, caller, value, nativeFee) ==
  IF ~checkGas(user).shouldTrigger THEN "No trigger: gas below threshold"
  ELSE IF ~authorizedSessions[user][caller] THEN "Caller not authorized session"
  ELSE IF ~(deposits[user] >= AmountToBridge) THEN "Insufficient deposit for bridge"
  ELSE "ok"

\* Variant of BridgeError: the deposit is not checked
BridgeError_NoFundsCheck(user, caller, value, nativeFee) ==
  IF ~checkGas(user).shouldTrigger THEN "No trigger: gas below threshold"
  ELSE IF ~authorizedSessions[user][caller] THEN "Caller not authorized session"
  ELSE IF ~(value >= nativeFee) THEN "Insufficient LZ fee"
  ELSE "ok"

\* Agent.checkGasAndBridge, the four require statements in the order of the code
\* (steps 1 to 4); nativeFee is the answer of ENDPOINT.quote.
BridgeError(user, caller, value, nativeFee) ==
  IF ~checkGas(user).shouldTrigger THEN "No trigger: gas below threshold"
  ELSE IF ~authorizedSessions[user][caller] THEN "Caller not authorized session"
  ELSE IF ~(deposits[user] >= AmountToBridge) THEN "Insufficient deposit for bridge"
  ELSE IF ~(value >= nativeFee) THEN "Insufficient LZ fee"
  ELSE "ok"

\* Variant of BridgeDebit: every account holding the transfer amount is debited
BridgeDebit_Everyone(d, user) ==
  [a \in DOMAIN d |-> IF d[a] >= AmountToBridge THEN d[a] - AmountToBridge ELSE d[a]]

\* Variant of BridgeDebit: nothing is debited
BridgeDebit_None(d, user) == d

\* Agent.checkGasAndBridge step 5: deposits[_user] -= amountToBridge
BridgeDebit(d, user) == [d EXCEPT ![user] = @ - AmountToBridge]

\* uint32 dstEid = 40204 (Monad testnet destination)
DstEid == 40204

\* abi.encode(_user, amountToBridge, block.timestamp, "BRIDGE_TO_MONAD")
BridgeMessage(user, amountToBridge, timestamp) ==
  <<user, amountToBridge, timestamp, "BRIDGE_TO_MONAD">>

\* emit BridgeInitiated(_user, dstEid, amountToBridge, nativeFee)
BridgeInitiatedEvent(user, dstEid, amountToBridge, nativeFee) ==
  <<user, dstEid, amountToBridge, nativeFee>>

\* Agent.checkGasAndBridge up to the transport call: the checks (steps 1-4),
\* the debit (step 5), then ENDPOINT.lzSend{value: nativeFee} is in flight.
\* msg.value is credited to the contract when the call begins.
CheckGasAndBridge(user, caller, value, nativeFee) ==
  /\ AgentCallable
  /\ LET err == BridgeError(user, caller, value, nativeFee) IN
     IF err = "ok"
     THEN /\ deposits' = BridgeDebit(deposits, user)
          /\ agentBalance' = agentBalance + value - nativeFee
          /\ credit' = [credit EXCEPT ![user] = @ - AmountToBridge]
          /\ stack' = <<[op |-> "bridge", pc |-> "lzSend", user |-> user,
                         caller |-> caller, value |-> value, fee |-> nativeFee,
                         nested |-> 0, snap |-> AgentSnapshot,
                         dstEid |-> DstEid,
                         message |-> BridgeMessage(user, AmountToBridge, now),
                         event |-> <<>>]>> \o Entered
     ELSE /\ stack' = Entered
          /\ UNCHANGED <<deposits, agentBalance, credit>>
  /\ UNCHANGED <<loVars, contract, now, last, gasThresholds, authorizedSessions,
                 sessionAuthorizedAt, bridgeInitiated>>

\* Variant of LzSendReturns: the excess payment is not refunded
LzSendReturns_NoRefund ==
  /\ contract = "Agent"
  /\ stack # <<>>
  /\ Head(stack).op = "bridge"
  /\ Head(stack).pc = "lzSend"
  /\ LET f == Head(stack) IN
     IF f.value < f.fee
     THEN /\ RevertTo(f.snap)
          /\ stack' = Tail(stack)
          /\ last' = Result("checkGasAndBridge", f.user, f.caller, 0, "Panic(0x11)")
     ELSE /\ bridgeInitiated' = [bridgeInitiated EXCEPT ![f.user] = @ + 1]
          /\ IF f.value - f.fee > 0
             THEN /\ stack' = Tail(stack)
                  /\ last' = Result("checkGasAndBridge", f.user, f.caller, 0, "ok")
                  /\ UNCHANGED agentBalance
             ELSE /\ stack' = Tail(stack)
                  /\ last' = Result("checkGasAndBridge", f.user, f.caller, 0, "ok")
                  /\ UNCHANGED agentBalance
          /\ UNCHANGED <<gasThresholds, authorizedSessions, sessionAuthorizedAt,
                         deposits, credit>>
  /\ UNCHANGED <<loVars, contract, now>>

\* Agent.checkGasAndBridge steps 6-7: lzSend returns, BridgeInitiated is
\* emitted, extra = msg.value - nativeFee (checked arithmetic) is computed and,
\* when positive, payable(msg.sender).transfer(extra) is in flight.
LzSendReturns ==
  /\ contract = "Agent"
  /\ stack # <<>>
  /\ Head(stack).op = "bridge"
  /\ Head(stack).pc = "lzSend"
  /\ LET f == Head(stack) IN
     IF f.value < f.fee
     THEN /\ RevertTo(f.snap)
          /\ stack' = Tail(stack)
          /\ last' = Result("checkGasAndBridge", f.user, f.caller, 0, "Panic(0x11)")
     ELSE /\ bridgeInitiated' = [bridgeInitiated EXCEPT ![f.user] = @ + 1]
          /\ IF f.value - f.fee > 0
             THEN /\ stack' = <<[f EXCEPT !.pc = "refund",
                                           !.event = BridgeInitiatedEvent(
                                                       f.user, f.dstEid,
                                                       AmountToBridge, f.fee)]>>
                             \o Tail(stack)
                  /\ agentBalance' = agentBalance - (f.value - f.fee)
                  /\ UNCHANGED last
             ELSE /\ stack' = Tail(stack)
                  /\ last' = Result("checkGasAndBridge", f.user, f.caller, 0, "ok")
                  /\ UNCHANGED agentBalance
          /\ UNCHANGED <<gasThresholds, authorizedSessions, sessionAuthorizedAt,
                         deposits, credit>>
  /\ UNCHANGED <<loVars, contract, now>>

\* Agent.checkGasAndBridge step 6: ENDPOINT.lzSend reverts; the revert
\* propagates and undoes the call.
LzSendReverts ==
  /\ contract = "Agent"
  /\ stack # <<>>
  /\ Head(stack).op = "bridge"
  /\ Head(stack).pc = "lzSend"
  /\ RevertTo(Head(stack).snap)
  /\ stack' = Tail(stack)
  /\ last' = Result("checkGasAndBridge", Head(stack).user, Head(stack).caller, 0,
                    "Transport failed")
  /\ UNCHANGED <<loVars, contract, now>>

\* Agent.checkGasAndBridge step 7: the caller accepts the refund.
RefundAccepted ==
  /\ contract = "Agent"
  /\ stack # <<>>
  /\ Head(stack).op = "bridge"
  /\ Head(stack).pc = "refund"
  /\ stack' = Tail(stack)
  /\ last' = Result("checkGasAndBridge", Head(stack).user, Head(stack).caller, 0, "ok")
  /\ UNCHANGED <<loVars, contract, now, agentVars>>

\* Agent.checkGasAndBridge step 7: the caller rejects the refund; transfer
\* reverts the call.
RefundRejected ==
  /\ contract = "Agent"
  /\ stack # <<>>
  /\ Head(stack).op = "bridge"
  /\ Head(stack).pc = "refund"
  /\ RevertTo(Head(stack).snap)
  /\ stack' = Tail(stack)
  /\ last' = Result("checkGasAndBridge", Head(stack).user, Head(stack).caller, 0,
                    "Refund failed")
  /\ UNCHANGED <<loVars, contract, now>>

\* ------------------------------------------------------- LimitOrderAgent
\* Amounts are in the token's smallest unit; prices are in units of 1e18 (the
\* scale of mockPrice and limitPrice), time in days (the unit of _daysValid).
\* The token calls of deposit and withdraw and the ETH payouts are taken with
\* their call: every state a callee can observe or produce by calling back is
\* a state the same calls reach one after the other, since deposit credits
\* only after transferFrom returns and withdraw debits before it pays.

\* uint256 public mockPrice = 3000 * 1e18
InitialMockPrice == 3000

Tokens == {Null, "USDC"}
TokenPairInputs == {<<"USDC", Null>>, <<Null, "USDC">>}
AmountInputs == {0, 1}
LimitPriceInputs == {0, 3000}
DaysInputs == {0, 1, 366}
PriceInputs == {2500, 3500}         \* setMockPrice arguments
OrderIds == 0 .. MaxOrders             \* MaxOrders itself is never created
Deployer == "dep"
LoAddr == Addr \cup {Deployer}

\* The zero value of a LimitOrder slot that was never written
NoOrder ==
  [user |-> Null, tokenIn |-> Null, tokenOut |-> Null, amountIn |-> 0,
   limitPrice |-> 0, expiresAt |-> 0, isActive |-> FALSE, isBuy |-> FALSE]

\* LimitOrderAgent.getOrder / getDeposit / isSessionAuthorized
getOrder(user, orderId) == orders[user][orderId]
loGetDeposit(user, token) == loDeposits[user][token]
loIsSessionAuthorized(user, session) == loAuthorizedSessions[user][session]

\* LimitOrderAgent.getCurrentPrice
getCurrentPrice(tokenIn, tokenOut) == mockPrice

\* Variant of mockSwap: no slippage is taken off.
mockSwap_NoSlippage(tokenIn, tokenOut, amountIn, price) == amountIn * price

\* LimitOrderAgent._mockSwap: (amountIn * price * 98) / (100 * 1e18), with
\* price = p * 1e18
mockSwap(tokenIn, tokenOut, amountIn, price) == (amountIn * price * 98) \div 100

\* Variant of PriceConditionMet: the comparisons are strict.
PriceConditionMet_Strict(order, currentPrice) ==
  IF order.isBuy THEN currentPrice < order.limitPrice
  ELSE currentPrice > order.limitPrice

\* LimitOrderAgent.executeLimitOrder / canExecute, the price comparison
PriceConditionMet(order, currentPrice) ==
  IF order.isBuy THEN currentPrice <= order.limitPrice
  ELSE currentPrice >= order.limitPrice

\* LimitOrderAgent.withdraw: the ETH branch
IsEth(token) == token = Null \/ token = "0xEeee"

LoCallable == contract = "LimitOrderAgent" /\ stack = <<>>

\* LimitOrderAgent.deposit; transferOk is the success flag of the token's
\* transferFrom call (not made when msg.value > 0).
LoDepositError(token, amount, value, transferOk) ==
  IF ~(amount > 0) THEN "Amount must be > 0"
  ELSE IF value > 0 THEN "ok"
  ELSE IF ~transferOk THEN "Transfer failed"
  ELSE "ok"

LoDeposit(caller, token, amount, value, transferOk) ==
  /\ LoCallable
  /\ loDeposits[caller][token] + amount + value <= MaxLoDeposit
  /\ IF LoDepositError(token, amount, value, transferOk) = "ok"
     THEN /\ loDeposits' = [loDeposits EXCEPT ![caller][token] =
                              @ + (IF value > 0 THEN value ELSE amount)]
          /\ loBalance' = loBalance + value
     ELSE UNCHANGED <<loDeposits, loBalance>>
  /\ UNCHANGED <<contract, now, stack, last, agentVars, loOwner, mockPrice, orders,
                 orderCount, loAuthorizedSessions, totalOrdersCreated,
                 totalOrdersExecuted, executions>>

\* LimitOrderAgent.receive
LoReceive(caller, value) ==
  /\ LoCallable
  /\ loDeposits[caller][Null] + value <= MaxLoDeposit
  /\ loDeposits' = [loDeposits EXCEPT ![caller][Null] = @ + value]
  /\ loBalance' = loBalance + value
  /\ UNCHANGED <<contract, now, stack, last, agentVars, loOwner, mockPrice, orders,
                 orderCount, loAuthorizedSessions, totalOrdersCreated,
                 totalOrdersExecuted, executions>>

\* LimitOrderAgent.withdraw; payOk is whether the payout call succeeds on the
\* receiving side (the receiver of ETH accepts, the token's transfer succeeds).
\* An ETH payout also fails when the contract holds less than _amount.
LoWithdrawError(caller, token, amount, payOk) ==
  IF ~(loDeposits[caller][token] >= amount) THEN "Insufficient balance"
  ELSE IF ~(amount > 0) THEN "Amount must be > 0"
  ELSE IF IsEth(token) /\ (loBalance < amount \/ ~payOk) THEN "ETH transfer failed"
  ELSE IF ~IsEth(token) /\ ~payOk THEN "Transfer failed"
  ELSE "ok"

LoWithdraw(caller, token, amount, payOk) ==
  /\ LoCallable
  /\ loDeposits[caller][token] <= MaxLoDeposit \/ amount = loDeposits[caller][token]
  /\ IF LoWithdrawError(caller, token, amount, payOk) = "ok"
     THEN /\ loDeposits' = [loDeposits EXCEPT ![caller][token] = @ - amount]
          /\ loBalance' = IF IsEth(token) THEN loBalance - amount ELSE loBalance
     ELSE UNCHANGED <<loDeposits, loBalance>>
  /\ UNCHANGED <<contract, now, stack, last, agentVars, loOwner, mockPrice, orders,
                 orderCount, loAuthorizedSessions, totalOrdersCreated,
                 totalOrdersExecuted, executions>>

\* Variant of CreateLimitOrderError: the validity must be below 365 days.
CreateLimitOrderError_Below365(caller, tokenIn, amountIn, limitPrice, daysValid) ==
  IF ~(amountIn > 0) THEN "Amount must be > 0"
  ELSE IF ~(limitPrice > 0) THEN "Price must be > 0"
  ELSE IF ~(daysValid > 0 /\ daysValid < 365) THEN "Invalid expiration"
  ELSE IF ~(loDeposits[caller][tokenIn] >= amountIn) THEN "Insufficient deposit"
  ELSE "ok"

\* LimitOrderAgent.createLimitOrder, the four require statements
CreateLimitOrderError(caller, tokenIn, amountIn, limitPrice, daysValid) ==
  IF ~(amountIn > 0) THEN "Amount must be > 0"
  ELSE IF ~(limitPrice > 0) THEN "Price must be > 0"
  ELSE IF ~(daysValid > 0 /\ daysValid <= 365) THEN "Invalid expiration"
  ELSE IF ~(loDeposits[caller][tokenIn] >= amountIn) THEN "Insufficient deposit"
  ELSE "ok"

\* Variant of CreateLimitOrderCall: the caller's order counter is read but
\* not advanced.
CreateLimitOrderCall_NoCount(caller, tokenIn, tokenOut, amountIn, limitPrice, daysValid, isBuy) ==
  /\ LoCallable
  /\ IF CreateLimitOrderError(caller, tokenIn, amountIn, limitPrice, daysValid) = "ok"
     THEN LET orderId == orderCount[caller] IN
          /\ orderCount' = orderCount
          /\ orders' = [orders EXCEPT ![caller][orderId] =
                          [user |-> caller, tokenIn |-> tokenIn, tokenOut |-> tokenOut,
                           amountIn |-> amountIn, limitPrice |-> limitPrice,
                           expiresAt |-> now + daysValid, isActive |-> TRUE,
                           isBuy |-> isBuy]]
          /\ loDeposits' = [loDeposits EXCEPT ![caller][tokenIn] = @ - amountIn]
          /\ totalOrdersCreated' = totalOrdersCreated + 1
     ELSE UNCHANGED <<orderCount, orders, loDeposits, totalOrdersCreated>>
  /\ UNCHANGED <<contract, now, stack, last, agentVars, loOwner, mockPrice,
                 loAuthorizedSessions, totalOrdersExecuted, loBalance, executions>>

\* LimitOrderAgent.createLimitOrder
CreateLimitOrderCall(caller, tokenIn, tokenOut, amountIn, limitPrice, daysValid, isBuy) ==
  /\ LoCallable
  /\ IF CreateLimitOrderError(caller, tokenIn, amountIn, limitPrice, daysValid) = "ok"
     THEN LET orderId == orderCount[caller] IN
          /\ orderCount' = [orderCount EXCEPT ![caller] = @ + 1]
          /\ orders' = [orders EXCEPT ![caller][orderId] =
                          [user |-> caller, tokenIn |-> tokenIn, tokenOut |-> tokenOut,
                           amountIn |-> amountIn, limitPrice |-> limitPrice,
                           expiresAt |-> now + daysValid, isActive |-> TRUE,
                           isBuy |-> isBuy]]
          /\ loDeposits' = [loDeposits EXCEPT ![caller][tokenIn] = @ - amountIn]
          /\ totalOrdersCreated' = totalOrdersCreated + 1
     ELSE UNCHANGED <<orderCount, orders, loDeposits, totalOrdersCreated>>
  /\ UNCHANGED <<contract, now, stack, last, agentVars, loOwner, mockPrice,
                 loAuthorizedSessions, totalOrdersExecuted, loBalance, executions>>

\* LimitOrderAgent.createLimitOrder, at most MaxOrders orders being created
\* over all users
CreateLimitOrder(caller, tokenIn, tokenOut, amountIn, limitPrice, daysValid, isBuy) ==
  /\ totalOrdersCreated < MaxOrders
  /\ CreateLimitOrderCall(caller, tokenIn, tokenOut, amountIn, limitPrice, daysValid,
                          isBuy)

\* Variant of CancelLimitOrderError: an expired order cannot be cancelled.
CancelLimitOrderError_Unexpired(caller, orderId) ==
  IF ~orders[caller][orderId].isActive THEN "Order not active"
  ELSE IF ~(orders[caller][orderId].user = caller) THEN "Not your order"
  ELSE IF ~(now < orders[caller][orderId].expiresAt) THEN "Order expired"
  ELSE "ok"

\* LimitOrderAgent.cancelLimitOrder, the two require statements on
\* orders[msg.sender][_orderId]
CancelLimitOrderError(caller, orderId) ==
  IF ~orders[caller][orderId].isActive THEN "Order not active"
  ELSE IF ~(orders[caller][orderId].user = caller) THEN "Not your order"
  ELSE "ok"

\* Variant of CancelLimitOrder: the refund goes to the slot of tokenOut.
CancelLimitOrder_RefundTokenOut(caller, orderId) ==
  /\ LoCallable
  /\ IF CancelLimitOrderError(caller, orderId) = "ok"
     THEN LET order == orders[caller][orderId] IN
          /\ orders' = [orders EXCEPT ![caller][orderId].isActive = FALSE]
          /\ loDeposits' = [loDeposits EXCEPT ![caller][order.tokenOut] =
                              @ + order.amountIn]
     ELSE UNCHANGED <<orders, loDeposits>>
  /\ UNCHANGED <<contract, now, stack, last, agentVars, loOwner, mockPrice, orderCount,
                 loAuthorizedSessions, totalOrdersCreated, totalOrdersExecuted,
                 loBalance, executions>>

\* LimitOrderAgent.cancelLimitOrder
CancelLimitOrder(caller, orderId) ==
  /\ LoCallable
  /\ IF CancelLimitOrderError(caller, orderId) = "ok"
     THEN LET order == orders[caller][orderId] IN
          /\ orders' = [orders EXCEPT ![caller][orderId].isActive = FALSE]
          /\ loDeposits' = [loDeposits EXCEPT ![caller][order.tokenIn] =
                              @ + order.amountIn]
     ELSE UNCHANGED <<orders, loDeposits>>
  /\ UNCHANGED <<contract, now, stack, last, agentVars, loOwner, mockPrice, orderCount,
                 loAuthorizedSessions, totalOrdersCreated, totalOrdersExecuted,
                 loBalance, executions>>

\* LimitOrderAgent.authorizeSession, the two require statements
LoAuthorizeSessionError(caller, sessionAccount) ==
  IF ~(sessionAccount # Null) THEN "Invalid address"
  ELSE IF ~(sessionAccount # caller) THEN "Cannot authorize self"
  ELSE "ok"

\* LimitOrderAgent.authorizeSession
LoAuthorizeSession(caller, sessionAccount) ==
  /\ LoCallable
  /\ IF LoAuthorizeSessionError(caller, sessionAccount) = "ok"
     THEN /\ loAuthorizedSessions' =
               [loAuthorizedSessions EXCEPT ![caller][sessionAccount] = TRUE]
     ELSE UNCHANGED <<loAuthorizedSessions>>
  /\ UNCHANGED <<contract, now, stack, last, agentVars, loOwner, mockPrice, orders,
                 orderCount, loDeposits, totalOrdersCreated, totalOrdersExecuted,
                 loBalance, executions>>

\* LimitOrderAgent.revokeSession, the require statement
LoRevokeSessionError(caller, sessionAccount) ==
  IF ~loAuthorizedSessions[caller][sessionAccount] THEN "Session not authorized"
  ELSE "ok"

\* LimitOrderAgent.revokeSession
LoRevokeSession(caller, sessionAccount) ==
  /\ LoCallable
  /\ IF LoRevokeSessionError(caller, sessionAccount) = "ok"
     THEN /\ loAuthorizedSessions' =
               [loAuthorizedSessions EXCEPT ![caller][sessionAccount] = FALSE]
     ELSE UNCHANGED <<loAuthorizedSessions>>
  /\ UNCHANGED <<contract, now, stack, last, agentVars, loOwner, mockPrice, orders,
                 orderCount, loDeposits, totalOrdersCreated, totalOrdersExecuted,
                 loBalance, executions>>

\* LimitOrderAgent.executeLimitOrder, check 1
ExecuteAuthorized(user, caller) ==
  loAuthorizedSessions[user][caller] \/ caller = user

\* Variant of ExecuteLimitOrderError: isActive is not checked
ExecuteLimitOrderError_NoActiveCheck(user, caller, orderId) ==
  IF ~ExecuteAuthorized(user, caller) THEN "Not authorized"
  ELSE IF ~(now < orders[user][orderId].expiresAt) THEN "Order expired"
  ELSE IF ~PriceConditionMet(orders[user][orderId],
                             getCurrentPrice(orders[user][orderId].tokenIn,
                                             orders[user][orderId].tokenOut))
       THEN "Price condition not met"
  ELSE "ok"

\* Variant of ExecuteLimitOrderError: the expiry time itself still executes.
ExecuteLimitOrderError_ExpiryInclusive(user, caller, orderId) ==
  IF ~ExecuteAuthorized(user, caller) THEN "Not authorized"
  ELSE IF ~orders[user][orderId].isActive THEN "Order not active"
  ELSE IF ~(now <= orders[user][orderId].expiresAt) THEN "Order expired"
  ELSE IF ~PriceConditionMet(orders[user][orderId],
                             getCurrentPrice(orders[user][orderId].tokenIn,
                                             orders[user][orderId].tokenOut))
       THEN "Price condition not met"
  ELSE "ok"

\* LimitOrderAgent.executeLimitOrder, the four require statements
ExecuteLimitOrderError(user, caller, orderId) ==
  IF ~ExecuteAuthorized(user, caller) THEN "Not authorized"
  ELSE IF ~orders[user][orderId].isActive THEN "Order not active"
  ELSE IF ~(now < orders[user][orderId].expiresAt) THEN "Order expired"
  ELSE IF ~PriceConditionMet(orders[user][orderId],
                             getCurrentPrice(orders[user][orderId].tokenIn,
                                             orders[user][orderId].tokenOut))
       THEN "Price condition not met"
  ELSE "ok"

\* LimitOrderAgent.executeLimitOrder
ExecuteLimitOrder(user, caller, orderId) ==
  /\ LoCallable
  /\ IF ExecuteLimitOrderError(user, caller, orderId) = "ok"
     THEN LET order == orders[user][orderId]
              currentPrice == getCurrentPrice(order.tokenIn, order.tokenOut)
              amountOut == mockSwap(order.tokenIn, order.tokenOut, order.amountIn,
                                    currentPrice)
          IN
          /\ orders' = [orders EXCEPT ![user][orderId].isActive = FALSE]
          /\ loDeposits' = [loDeposits EXCEPT ![user][order.tokenOut] = @ + amountOut]
          /\ totalOrdersExecuted' = totalOrdersExecuted + 1
          /\ executions' = [executions EXCEPT ![user][orderId] = @ + 1]
     ELSE UNCHANGED <<orders, loDeposits, totalOrdersExecuted, executions>>
  /\ UNCHANGED <<contract, now, stack, last, agentVars, loOwner, mockPrice, orderCount,
                 loAuthorizedSessions, totalOrdersCreated, loBalance>>

\* Variant of canExecute: expiry is looked at before isActive.
canExecute_ExpiryFirst(user, orderId) ==
  LET order == orders[user][orderId] IN
  IF now >= order.expiresAt THEN [executable |-> FALSE, reason |-> "Order expired"]
  ELSE IF ~order.isActive THEN [executable |-> FALSE, reason |-> "Order not active"]
  ELSE IF ~PriceConditionMet(order, getCurrentPrice(order.tokenIn, order.tokenOut))
       THEN [executable |-> FALSE, reason |-> "Price condition not met"]
  ELSE [executable |-> TRUE, reason |-> "Ready to execute"]

\* LimitOrderAgent.canExecute
canExecute(user, orderId) ==
  LET order == orders[user][orderId] IN
  IF ~order.isActive THEN [executable |-> FALSE, reason |-> "Order not active"]
  ELSE IF now >= order.expiresAt THEN [executable |-> FALSE, reason |-> "Order expired"]
  ELSE IF ~PriceConditionMet(order, getCurrentPrice(order.tokenIn, order.tokenOut))
       THEN [executable |-> FALSE, reason |-> "Price condition not met"]
  ELSE [executable |-> TRUE, reason |-> "Ready to execute"]

\* LimitOrderAgent.getStats
getStats ==
  <<totalOrdersCreated, totalOrdersExecuted, totalOrdersCreated - totalOrdersExecuted>>

\* LimitOrderAgent.setMockPrice, the require statement
SetMockPriceError(caller) ==
  IF ~(caller = loOwner) THEN "Only owner" ELSE "ok"

\* LimitOrderAgent.setMockPrice
SetMockPrice(caller, newPrice) ==
  /\ LoCallable
  /\ IF caller = loOwner
     THEN /\ mockPrice' = newPrice
     ELSE UNCHANGED <<mockPrice>>
  /\ UNCHANGED <<contract, now, stack, last, agentVars, loOwner, orders, orderCount,
                 loAuthorizedSessions, loDeposits, totalOrdersCreated,
                 totalOrdersExecuted, loBalance, executions>>

\* Variant of TransferOwnershipError: the caller is not checked.
TransferOwnershipError_AnyCaller(caller, newOwner) ==
  IF ~(newOwner # Null) THEN "Invalid address" ELSE "ok"

\* LimitOrderAgent.transferOwnership, the two require statements
TransferOwnershipError(caller, newOwner) ==
  IF ~(caller = loOwner) THEN "Only owner"
  ELSE IF ~(newOwner # Null) THEN "Invalid address"
  ELSE "ok"

\* LimitOrderAgent.transferOwnership
TransferOwnership(caller, newOwner) ==
  /\ LoCallable
  /\ IF TransferOwnershipError(caller, newOwner) = "ok"
     THEN /\ loOwner' = newOwner
     ELSE UNCHANGED <<loOwner>>
  /\ UNCHANGED <<contract, now, stack, last, agentVars, mockPrice, orders, orderCount,
                 loAuthorizedSessions, loDeposits, totalOrdersCreated,
                 totalOrdersExecuted, loBalance, executions>>

\* LimitOrderAgent.emergencyWithdraw, the require statement and the failure
\* of the transfer to the owner
EmergencyWithdrawError(caller, payOk) ==
  IF ~(caller = loOwner) THEN "Only owner"
  ELSE IF ~payOk THEN "ETH transfer failed"
  ELSE "ok"

\* LimitOrderAgent.emergencyWithdraw; payOk is whether the owner accepts ETH.
EmergencyWithdraw(caller, payOk) ==
  /\ LoCallable
  /\ IF caller = loOwner /\ payOk
     THEN /\ loBalance' = 0
     ELSE UNCHANGED <<loBalance>>
  /\ UNCHANGED <<contract, now, stack, last, agentVars, loOwner, mockPrice, orders,
                 orderCount, loAuthorizedSessions, loDeposits, totalOrdersCreated,
                 totalOrdersExecuted, executions>>

\* block.timestamp advances between transactions.  Agent reads the clock only
\* to stamp sessionAuthorizedAt and the bridge message.
Tick ==
  /\ contract = "LimitOrderAgent"
  /\ stack = <<>>
  /\ now < MaxTime
  /\ now' = now + 1
  /\ UNCHANGED <<contract, stack, last, agentVars, loVars>>

Init ==
  /\ contract \in {"Agent", "LimitOrderAgent"}
  /\ now = 1
  /\ stack = <<>>
  /\ last = Result("constructor", Null, Null, 0, "ok")
  /\ gasThresholds = [a \in Addr |-> 0]
  /\ authorizedSessions = [u \in Addr |-> [s \in Addr \cup {Null} |-> FALSE]]
  /\ sessionAuthorizedAt = [u \in Addr |-> [s \in Addr \cup {Null} |-> 0]]
  /\ deposits = [a \in Addr |-> 0]
  /\ agentBalance = 0
  /\ bridgeInitiated = [a \in Addr |-> 0]
  /\ credit = [a \in Addr |-> 0]
  /\ loOwner = Deployer
  /\ mockPrice = InitialMockPrice
  /\ orders = [u \in Addr |-> [i \in OrderIds |-> NoOrder]]
  /\ orderCount = [u \in Addr |-> 0]
  /\ loAuthorizedSessions = [u \in Addr |-> [x \in Addr \cup {Null} |-> FALSE]]
  /\ loDeposits = [u \in Addr |-> [t \in Tokens |-> 0]]
  /\ totalOrdersCreated = 0
  /\ totalOrdersExecuted = 0
  /\ loBalance = 0
  /\ executions = [u \in Addr |-> [i \in OrderIds |-> 0]]

NextAgent ==
  \/ \E c \in Users, t \in ThresholdInputs : SetGasThreshold(c, t)
  \/ \E c \in Users, v \in DepositInputs : Deposit(c, v)
  \/ \E c \in Users, a \in WithdrawInputs : Withdraw(c, a)
  \/ WithdrawPayoutAccepted
  \/ WithdrawPayoutRejected
  \/ \E c \in Users : \E s \in SessionInputs(c) : AuthorizeSession(c, s)
  \/ \E c \in Users : \E s \in SessionInputs(c) : RevokeSession(c, s)
  \/ \E u \in Users, c \in Addr, v \in PayInputs, f \in QuoteFees :
        CheckGasAndBridge(u, c, v, f)
  \/ LzSendReturns
  \/ LzSendReverts
  \/ RefundAccepted
  \/ RefundRejected

NextLimitOrderAgent ==
  \/ \E c \in Users, t \in Tokens, a \in AmountInputs, v \in AmountInputs,
        ok \in BOOLEAN : LoDeposit(c, t, a, v, ok)
  \/ \E c \in Users, v \in AmountInputs : LoReceive(c, v)
  \/ \E c \in Users, t \in Tokens, ok \in BOOLEAN :
        \E a \in AmountInputs \cup {loDeposits[c][t]} : LoWithdraw(c, t, a, ok)
  \/ \E c \in Users, p \in TokenPairInputs, a \in AmountInputs,
        lp \in LimitPriceInputs, d \in DaysInputs, b \in BOOLEAN :
        CreateLimitOrder(c, p[1], p[2], a, lp, d, b)
  \/ \E c \in Users, i \in OrderIds : CancelLimitOrder(c, i)
  \/ \E c \in Users : \E s \in SessionInputs(c) : LoAuthorizeSession(c, s)
  \/ \E c \in Users : \E s \in SessionInputs(c) : LoRevokeSession(c, s)
  \/ \E u \in Users, c \in Addr, i \in OrderIds : ExecuteLimitOrder(u, c, i)
  \/ \E c \in LoAddr, p \in PriceInputs : SetMockPrice(c, p)
  \/ \E c \in LoAddr, n \in {Null, "u2"} : TransferOwnership(c, n)
  \/ \E c \in LoAddr, ok \in BOOLEAN : EmergencyWithdraw(c, ok)
  \/ Tick

Next == NextAgent \/ NextLimitOrderAgent

InitAgent == Init /\ contract = "Agent"

InitLimitOrderAgent == Init /\ contract = "LimitOrderAgent"

Spec == Init /\ [][Next]_vars

SpecAgent == InitAgent /\ [][NextAgent]_vars

SpecLimitOrderAgent == InitLimitOrderAgent /\ [][NextLimitOrderAgent]_vars

\* Agent called by every address: a session account is an address like any
\* other and can set a threshold, deposit and withdraw for itself.
NextAgentAnyCaller ==
  \/ \E c \in Addr, t \in ThresholdInputs : SetGasThreshold(c, t)
  \/ \E c \in Addr, v \in DepositInputs : Deposit(c, v)
  \/ \E c \in Addr, a \in WithdrawInputs : Withdraw(c, a)
  \/ WithdrawPayoutAccepted
  \/ WithdrawPayoutRejected
  \/ \E c \in Users : \E s \in SessionInputs(c) : AuthorizeSession(c, s)
  \/ \E c \in Users : \E s \in SessionInputs(c) : RevokeSession(c, s)
  \/ \E u \in Users, c \in Addr, v \in PayInputs, f \in QuoteFees :
        CheckGasAndBridge(u, c, v, f)
  \/ LzSendReturns
  \/ LzSendReverts
  \/ RefundAccepted
  \/ RefundRejected

SpecAgentAnyCaller == InitAgent /\ [][NextAgentAnyCaller]_vars

\* The session accounts a user can name: every address and the null address.
SessionAccountInputs == Addr \cup {Null}

\* The thresholds and deposits set next to the grants: an invalid and a valid
\* value of each.
SessionsThresholdInputs == {0, 40}
SessionsDepositInputs == {0, 10}

\* block.timestamp advances between the transactions sent to Agent.
AgentTick ==
  /\ contract = "Agent"
  /\ stack = <<>>
  /\ now < MaxTime
  /\ now' = now + 1
  /\ UNCHANGED <<contract, stack, last, agentVars, loVars>>

\* The session management of the two contracts over time: a user can hold
\* several grants at once, next to a threshold and a deposit.
NextSessions ==
  \/ \E c \in Users, s \in SessionAccountInputs : AuthorizeSession(c, s)
  \/ \E c \in Users, s \in SessionAccountInputs : RevokeSession(c, s)
  \/ \E c \in Users, t \in SessionsThresholdInputs : SetGasThreshold(c, t)
  \/ \E c \in Users, v \in SessionsDepositInputs : Deposit(c, v)
  \/ AgentTick
  \/ \E c \in Users, s \in SessionAccountInputs : LoAuthorizeSession(c, s)
  \/ \E c \in Users, s \in SessionAccountInputs : LoRevokeSession(c, s)
  \/ Tick

SpecSessions == Init /\ [][NextSessions]_vars

\* The thresholds written one after the other: the rejected value, the
\* smallest accepted ones, and values on either side of the gas reading.
ThresholdValueInputs == {0, 1, 2, 40, 70}

\* Agent.setGasThreshold called by every address with every value
NextThresholds ==
  \E c \in Addr, t \in ThresholdValueInputs : SetGasThreshold(c, t)

SpecThresholds == InitAgent /\ [][NextThresholds]_vars

\* The validity periods asked of createLimitOrder: the two rejected
\* neighbours and the two ends of the accepted range.
OrderDaysInputs == {0, 1, 365, 366}

\* Deposits and the creation, cancellation and expiry of one order, over the
\* whole range of validity periods.
NextOrderCreation ==
  \/ \E c \in Users, t \in Tokens, a \in AmountInputs, v \in AmountInputs,
        ok \in BOOLEAN : LoDeposit(c, t, a, v, ok)
  \/ \E c \in Users, p \in TokenPairInputs, a \in AmountInputs,
        lp \in LimitPriceInputs, d \in OrderDaysInputs, b \in BOOLEAN :
        CreateLimitOrder(c, p[1], p[2], a, lp, d, b)
  \/ \E c \in Users, i \in OrderIds : CancelLimitOrder(c, i)
  \/ Tick

SpecOrderCreation == InitLimitOrderAgent /\ [][NextOrderCreation]_vars

\* The orders asked of createLimitOrder in the order book: a purchase of
\* ETH (the zero address) with USDC and a sale of ETH for USDC, valid for a
\* day or rejected for a validity of zero days.
OrderBookInputs == {<<"USDC", Null, TRUE>>, <<Null, "USDC", FALSE>>}

OrderBookDaysInputs == {0, 1}

\* The order book of two users holding up to MaxOrders + 1 orders each, ids
\* 0 .. MaxOrders: deposits, creations, cancellations and executions by the
\* users themselves.
NextOrderBook ==
  \/ \E c \in Users, t \in Tokens, a \in AmountInputs, v \in AmountInputs,
        ok \in BOOLEAN : LoDeposit(c, t, a, v, ok)
  \/ \E c \in Users, o \in OrderBookInputs, a \in AmountInputs,
        lp \in LimitPriceInputs, d \in OrderBookDaysInputs :
        /\ orderCount[c] <= MaxOrders
        /\ CreateLimitOrderCall(c, o[1], o[2], a, lp, d, o[3])
  \/ \E c \in Users, i \in OrderIds : CancelLimitOrder(c, i)
  \/ \E u \in Users, c \in Users, i \in OrderIds : ExecuteLimitOrder(u, c, i)

SpecOrderBook == InitLimitOrderAgent /\ [][NextOrderBook]_vars

\* The prices given to setMockPrice around an order's limit of 3000: far
\* below (1), below, equal and above.
ExecutionPriceInputs == {1, 2500, 3000, 3500}

\* The life of one order up to its execution: deposit, creation, session
\* grant, price changes by the owner, the passing of time, cancellation and
\* execution by any address.
NextExecution ==
  \/ \E c \in Users, t \in Tokens, a \in AmountInputs, v \in AmountInputs,
        ok \in BOOLEAN : LoDeposit(c, t, a, v, ok)
  \/ \E c \in Users, p \in TokenPairInputs, a \in AmountInputs,
        lp \in LimitPriceInputs, d \in OrderDaysInputs, b \in BOOLEAN :
        CreateLimitOrder(c, p[1], p[2], a, lp, d, b)
  \/ \E c \in Users, i \in OrderIds : CancelLimitOrder(c, i)
  \/ \E c \in Users : \E s \in SessionInputs(c) : LoAuthorizeSession(c, s)
  \/ \E u \in Users, c \in Addr, i \in OrderIds : ExecuteLimitOrder(u, c, i)
  \/ \E c \in LoAddr, p \in ExecutionPriceInputs : SetMockPrice(c, p)
  \/ Tick

SpecExecution == InitLimitOrderAgent /\ [][NextExecution]_vars

\* ---------------------------------------------------------------- properties

\* C1: in every reachable state of Agent and of LimitOrderAgent every deposit
\* (per user in Agent, per (user, token) in LimitOrderAgent) is >= 0, and a
\* debit larger than the balance (a withdraw, a bridge, an order) is rejected
\* and leaves the balance as it was: it is not saturated to zero.
C1_DepositsNeverNegative ==
  /\ [](/\ \A u \in Addr : deposits[u] >= 0
        /\ \A u \in Addr, t \in Tokens : loDeposits[u][t] >= 0
        /\ \A c \in Users, t \in Tokens, a \in AmountInputs,
              lp \in LimitPriceInputs, d \in DaysInputs :
             a > loDeposits[c][t] => CreateLimitOrderError(c, t, a, lp, d) # "ok")
  /\ [][/\ \/ deposits' = deposits
           \/ /\ \A c \in Users, a \in WithdrawInputs :
                    ~(a > deposits[c] /\ Withdraw(c, a))
              /\ \A u \in Users, c \in Addr, v \in PayInputs, f \in QuoteFees :
                    ~(AmountToBridge > deposits[u] /\ CheckGasAndBridge(u, c, v, f))
        /\ \/ loDeposits' = loDeposits
           \/ \A c \in Users, t \in Tokens, a \in AmountInputs, ok \in BOOLEAN :
                 ~(a > loDeposits[c][t] /\ LoWithdraw(c, t, a, ok))
       ]_vars

\* C1 witness: u1's deposit has been debited by a bridge down to less than the
\* next debit, with trigger and session in place for that next call.
C1_Witness ==
  /\ stack = <<>>
  /\ bridgeInitiated["u1"] = 1
  /\ deposits["u1"] = 5
  /\ checkGas("u1").shouldTrigger
  /\ authorizedSessions["u1"]["s1"]

\* C2: an execution never succeeds for an unauthorized caller.  A
\* checkGasAndBridge(user) or executeLimitOrder(user, orderId) call by c with
\* c # user and no grant (user, c) changes nothing (no debit, no credit, no
\* send), and every bridge that completes successfully was called by a caller
\* that was the user or held the grant at the moment of the call.
C2_NoExecutionForUnauthorized ==
  [][/\ \/ UNCHANGED agentVars /\ Len(stack') = Len(stack)
        \/ \A u \in Users, c \in Addr, v \in PayInputs, f \in QuoteFees :
              ~(~(c = u \/ authorizedSessions[u][c]) /\ CheckGasAndBridge(u, c, v, f))
     /\ \/ UNCHANGED loVars
        \/ \A u \in Users, c \in Addr, i \in OrderIds :
              ~(~(c = u \/ loAuthorizedSessions[u][c]) /\ ExecuteLimitOrder(u, c, i))
     /\ (Len(stack') < Len(stack) /\ last'.err = "ok" /\ (LzSendReturns \/ RefundAccepted))
          => \/ Head(stack).caller = Head(stack).user
             \/ Head(stack).snap.authorizedSessions[Head(stack).user][Head(stack).caller]
    ]_vars

\* C2 witness: s1, authorized by u1 only, has bridged for u1, while u2 has the
\* trigger and the funds but never granted s1.
C2_Witness ==
  /\ stack = <<>>
  /\ last = Result("checkGasAndBridge", "u1", "s1", 0, "ok")
  /\ ~authorizedSessions["u2"]["s1"]
  /\ sessionAuthorizedAt["u2"]["s1"] = 0
  /\ checkGas("u2").shouldTrigger
  /\ deposits["u2"] >= AmountToBridge
  /\ bridgeInitiated["u2"] = 0

\* C3 as stated: a call whose caller is the user passes the authorization
\* check without any grant and succeeds when the other conditions hold: a
\* checkGasAndBridge(user) by user with trigger, funds and fee debits the
\* deposit, and an executeLimitOrder(user, orderId) by user on an active,
\* unexpired order whose price condition is met executes it.
C3_UserExecutesForSelf ==
  [][/\ \A u \in Users, v \in PayInputs, f \in QuoteFees :
          (/\ checkGas(u).shouldTrigger
           /\ deposits[u] >= AmountToBridge
           /\ v >= f
           /\ CheckGasAndBridge(u, u, v, f))
            => deposits'[u] = deposits[u] - AmountToBridge
     /\ \A u \in Users, i \in OrderIds :
          (/\ orders[u][i].isActive
           /\ now < orders[u][i].expiresAt
           /\ PriceConditionMet(orders[u][i], mockPrice)
           /\ ExecuteLimitOrder(u, u, i))
            => executions'[u][i] = executions[u][i] + 1
    ]_vars

\* C3 witness: u1 has the trigger and the funds and has granted nobody.
C3_Witness ==
  /\ contract = "Agent"
  /\ stack = <<>>
  /\ checkGas("u1").shouldTrigger
  /\ deposits["u1"] >= AmountToBridge
  /\ \A s \in Addr : ~authorizedSessions["u1"][s]

\* C4: a checkGasAndBridge call rejected by the trigger, authorization, funds
\* or fee check leaves the whole state unchanged (every deposit, threshold and
\* grant, the contract's balance, the log) and opens no call to the transport.
C4_RejectedBridgeChangesNothing ==
  [][\/ /\ UNCHANGED agentVars
        /\ Len(stack') = Len(stack)
        /\ last' = last
     \/ \A u \in Users, c \in Addr, v \in PayInputs, f \in QuoteFees :
          ~(/\ \/ ~((gasThresholds[u] > 0) /\ (getMockGas < gasThresholds[u]))
               \/ ~authorizedSessions[u][c]
               \/ deposits[u] < AmountToBridge
               \/ v < f
            /\ CheckGasAndBridge(u, c, v, f))
    ]_vars

\* C4 witness: a call by s1 for u1 paying 1 against a fee of 2 meets every
\* check but the fee check, with a deposit that a debit would change.
C4_Witness ==
  /\ stack = <<>>
  /\ BridgeError("u1", "s1", 1, 2) = "Insufficient LZ fee"
  /\ deposits["u1"] = AmountToBridge
  /\ bridgeInitiated["u1"] = 0

\* C5: when ENDPOINT.lzSend or the refund payout fails after the debit, the
\* whole call fails: the storage, the balance and the log are what they were
\* when the call began (the deposit is restored, no BridgeInitiated remains),
\* and the call is over: its frame is closed and no send is started again.
C5_FailedSendRollsBack ==
  [][(Len(stack') < Len(stack) /\ (LzSendReverts \/ RefundRejected))
       => (/\ deposits' = Head(stack).snap.deposits
           /\ bridgeInitiated' = Head(stack).snap.bridgeInitiated
           /\ agentBalance' = Head(stack).snap.agentBalance
           /\ gasThresholds' = Head(stack).snap.gasThresholds
           /\ authorizedSessions' = Head(stack).snap.authorizedSessions
           /\ stack' = Tail(stack)
           /\ last'.err \in {"Transport failed", "Refund failed"})
    ]_vars

\* C5 witness: u1's bridge failed at the refund, after the debit and after
\* BridgeInitiated was emitted; the deposit is whole and no record exists.
C5_Witness ==
  /\ stack = <<>>
  /\ last = Result("checkGasAndBridge", "u1", "s1", 0, "Refund failed")
  /\ deposits["u1"] = AmountToBridge
  /\ bridgeInitiated["u1"] = 0

\* C6: the deposit is debited in the step that opens the call to the
\* transport (and in the step that opens withdraw's payout), so a nested call
\* sees the debited balance; in every state, mid-call states included, what
\* bridges debited plus what was withdrawn for a user is at most what the user
\* deposited (credit >= 0), and the recorded deposit is exactly that rest.
C6_DebitBeforeSend ==
  /\ [](\A u \in Addr : credit[u] >= 0 /\ deposits[u] = credit[u])
  /\ [][/\ (Len(stack') > Len(stack) /\ Head(stack').op = "bridge")
             => (/\ Head(stack').pc = "lzSend"
                 /\ deposits'[Head(stack').user]
                      = deposits[Head(stack').user] - AmountToBridge)
        /\ (Len(stack') > Len(stack) /\ Head(stack').op = "withdraw")
             => deposits'[Head(stack').user]
                  = deposits[Head(stack').user] - Head(stack').value
       ]_vars

\* C6 witness: during u1's send the transport has re-entered checkGasAndBridge
\* for u1: two bridge frames are open and both debits are booked.
C6_Witness ==
  /\ Len(stack) = 2
  /\ stack[1].op = "bridge" /\ stack[2].op = "bridge"
  /\ stack[1].user = "u1" /\ stack[2].user = "u1"
  /\ deposits["u1"] = 0
  /\ credit["u1"] = 0

\* C7: the funds check and the debit are one step.  A checkGasAndBridge that
\* passes with a deposit d, AmountToBridge <= d < 2 * AmountToBridge, leaves
\* less than AmountToBridge at once, and every checkGasAndBridge that finds
\* less than AmountToBridge (the other call of the pair, nested in the first
\* or after it) is rejected, with "Insufficient deposit for bridge" when the
\* trigger and the grant hold: two calls never pass against the same balance.
C7_FundsCheckAndDebitAtomic ==
  /\ [](\A u \in Users, c \in Addr, v \in PayInputs, f \in QuoteFees :
          (/\ deposits[u] < AmountToBridge
           /\ checkGas(u).shouldTrigger
           /\ authorizedSessions[u][c])
            => BridgeError(u, c, v, f) = "Insufficient deposit for bridge")
  /\ [][/\ \/ UNCHANGED agentVars /\ Len(stack') = Len(stack)
           \/ \A u \in Users, c \in Addr, v \in PayInputs, f \in QuoteFees :
                 ~(deposits[u] < AmountToBridge /\ CheckGasAndBridge(u, c, v, f))
        /\ Len(stack') > Len(stack)
             => \A u \in Users, c \in Addr, v \in PayInputs, f \in QuoteFees :
                  (deposits[u] < 2 * AmountToBridge /\ CheckGasAndBridge(u, c, v, f))
                    => deposits'[u] < AmountToBridge
       ]_vars

\* C7 witness: u1's call passed with a deposit of 15, and while its send was
\* open a second call for u1 was made; the deposit stands at 5.
C7_Witness ==
  /\ Len(stack) = 1
  /\ stack[1].op = "bridge"
  /\ stack[1].pc = "lzSend"
  /\ stack[1].user = "u1"
  /\ stack[1].nested = 1
  /\ stack[1].snap.deposits["u1"] = 15
  /\ deposits["u1"] = 5
  /\ checkGas("u1").shouldTrigger

\* C8 as stated: right after a successful checkGasAndBridge(user) a second
\* call for that user, by the same caller, fails whatever it pays.
C8_SecondBridgeAlwaysFails ==
  \A u \in Users, c \in Addr :
    (stack = <<>> /\ last = Result("checkGasAndBridge", u, c, 0, "ok"))
      => \A v \in PayInputs, f \in QuoteFees : BridgeError(u, c, v, f) # "ok"

\* C8 amended: a bridge consumes AmountToBridge of the deposit and nothing
\* else: the step that passes the checks leaves the threshold and the grants
\* as they are, and right after a successful checkGasAndBridge(user), with the
\* trigger and the grant still in place, a second call is rejected exactly
\* when the rest of the deposit is below AmountToBridge ("Insufficient deposit
\* for bridge") or the payment is below the fee; otherwise it passes again.
C8_SecondBridgeFailsOnlyForLackOfFunds ==
  /\ [](\A u \in Users, c \in Addr :
          (/\ stack = <<>>
           /\ last = Result("checkGasAndBridge", u, c, 0, "ok")
           /\ checkGas(u).shouldTrigger
           /\ authorizedSessions[u][c])
            => \A v \in PayInputs, f \in QuoteFees :
                 BridgeError(u, c, v, f) =
                   IF deposits[u] < AmountToBridge
                   THEN "Insufficient deposit for bridge"
                   ELSE IF v < f THEN "Insufficient LZ fee" ELSE "ok")
  /\ [][Len(stack') > Len(stack)
          => \A u \in Users, c \in Addr, v \in PayInputs, f \in QuoteFees :
               CheckGasAndBridge(u, c, v, f)
                 => (/\ gasThresholds' = gasThresholds
                     /\ authorizedSessions' = authorizedSessions
                     /\ deposits'[u] = deposits[u] - AmountToBridge)
       ]_vars

\* C8 witness: u1 has been bridged twice by s1, the deposit of 20 is used up,
\* and threshold and grant are as they were.
C8_Witness ==
  /\ stack = <<>>
  /\ last = Result("checkGasAndBridge", "u1", "s1", 0, "ok")
  /\ bridgeInitiated["u1"] = 2
  /\ deposits["u1"] = 0
  /\ checkGas("u1").shouldTrigger
  /\ authorizedSessions["u1"]["s1"]

\* C9 as stated: once an order was executed or cancelled, every later
\* executeLimitOrder on it, by any caller, fails with "Order not active".
C9_LaterExecuteFailsNotActive ==
  \A u \in Users, i \in OrderIds, c \in Addr :
    (orders[u][i].user = u /\ ~orders[u][i].isActive)
      => ExecuteLimitOrderError(u, c, i) = "Order not active"

\* C9 amended: each order is executed at most once; once it was executed or
\* cancelled, every later executeLimitOrder on it changes nothing (credits
\* nothing), failing with "Order not active" when the caller is the user or an
\* authorized session and with "Not authorized" otherwise.
C9_OrderExecutedAtMostOnce ==
  /\ [](\A u \in Users, i \in OrderIds :
          /\ executions[u][i] <= 1
          /\ (orders[u][i].user = u /\ ~orders[u][i].isActive)
               => \A c \in Addr :
                    ExecuteLimitOrderError(u, c, i) =
                      IF c = u \/ loAuthorizedSessions[u][c]
                      THEN "Order not active" ELSE "Not authorized")
  /\ [][\/ UNCHANGED loVars
        \/ \A u \in Users, c \in Addr, i \in OrderIds :
             ~(/\ orders[u][i].user = u
               /\ ~orders[u][i].isActive
               /\ ExecuteLimitOrder(u, c, i))
       ]_vars

\* C9 witness: u1's order 0 was executed once, its proceeds are credited, and
\* s1 still holds u1's grant.
C9_Witness ==
  /\ executions["u1"][0] = 1
  /\ ~orders["u1"][0].isActive
  /\ loAuthorizedSessions["u1"]["s1"]
  /\ loDeposits["u1"][orders["u1"][0].tokenOut] > 0

\* C10: an unset threshold never causes a trigger.  For a user whose threshold
\* is 0, checkGas and getBridgeStatus answer shouldTrigger = false, at every
\* gas reading the comparison is false, every checkGasAndBridge for that user
\* is rejected at the trigger check whoever calls it and changes nothing, and
\* no BridgeInitiated exists for a user without a threshold.
C10_UnsetThresholdNeverTriggers ==
  /\ [](\A u \in Users :
          gasThresholds[u] = 0
            => (/\ ~checkGas(u).shouldTrigger
                /\ \A s \in Addr : ~getBridgeStatus(u, s).shouldTrigger
                /\ \A g \in Readings : ~ShouldTrigger(g, gasThresholds[u])
                /\ \A c \in Addr, v \in PayInputs, f \in QuoteFees :
                     BridgeError(u, c, v, f) = "No trigger: gas below threshold"
                /\ bridgeInitiated[u] = 0))
  /\ [][\/ UNCHANGED agentVars /\ Len(stack') = Len(stack)
        \/ \A u \in Users, c \in Addr, v \in PayInputs, f \in QuoteFees :
             ~(gasThresholds[u] = 0 /\ CheckGasAndBridge(u, c, v, f))
       ]_vars

\* C10 witness: u1 has the funds and an authorized session but no threshold,
\* while u2, with a threshold, has been bridged.
C10_Witness ==
  /\ stack = <<>>
  /\ gasThresholds["u1"] = 0
  /\ deposits["u1"] >= AmountToBridge
  /\ authorizedSessions["u1"]["s1"]
  /\ bridgeInitiated["u2"] = 1

\* C11: checkGas(user) answers shouldTrigger = true exactly when the user's
\* threshold is set and the reading (50) is strictly greater than it, so a
\* threshold of 40 triggers and one of 70 does not, and every
\* checkGasAndBridge for a user whose threshold is 70 is rejected with the
\* no-trigger error.
C11_TriggersWhenReadingAboveThreshold ==
  \A u \in Users :
    /\ checkGas(u).shouldTrigger
         <=> (gasThresholds[u] > 0 /\ checkGas(u).currentGasGwei > gasThresholds[u])
    /\ gasThresholds[u] = 40 => checkGas(u).shouldTrigger
    /\ gasThresholds[u] = 70
         => /\ ~checkGas(u).shouldTrigger
            /\ \A c \in Addr, v \in PayInputs, f \in QuoteFees :
                 BridgeError(u, c, v, f) = "No trigger: gas below threshold"

\* C11 witness: with the reading at 50, a bridge has gone through for u1 whose
\* threshold is 70, while u2, whose threshold is 40, is answered
\* shouldTrigger = false.
C11_Witness ==
  /\ stack = <<>>
  /\ gasThresholds["u1"] = 70
  /\ last = Result("checkGasAndBridge", "u1", "s1", 0, "ok")
  /\ bridgeInitiated["u1"] = 1
  /\ gasThresholds["u2"] = 40
  /\ ~checkGas("u2").shouldTrigger

\* C12: every successful checkGasAndBridge(user) lowers deposits[user] by
\* exactly the fixed transfer amount, whatever the caller and the payment, and
\* leaves every other deposit (the calling session's too), every threshold and
\* every grant as they were.  The debit is made by the step that passes the
\* checks; the steps that complete the call (lzSend returning, the refund
\* accepted) change none of them, so a call during which nothing called back
\* ends in the state it began in but for the one debit.
C12_SuccessfulBridgeDebitsOnlyTheUser ==
  [][/\ (Len(stack') = Len(stack) + 1 /\ Head(stack').op = "bridge")
          => \A u \in Users, c \in Addr, v \in PayInputs, f \in QuoteFees :
               (BridgeError(u, c, v, f) = "ok" /\ CheckGasAndBridge(u, c, v, f))
                 => /\ deposits'[u] = deposits[u] - AmountToBridge
                    /\ \A a \in Addr \ {u} : deposits'[a] = deposits[a]
                    /\ gasThresholds' = gasThresholds
                    /\ authorizedSessions' = authorizedSessions
     /\ (stack # <<>> /\ Head(stack).op = "bridge"
           /\ Head(stack).value >= Head(stack).fee
           /\ (LzSendReturns \/ RefundAccepted))
          => /\ deposits' = deposits
             /\ gasThresholds' = gasThresholds
             /\ authorizedSessions' = authorizedSessions
             /\ (stack' = Tail(stack) /\ Head(stack).nested = 0)
                  => LET f == Head(stack) IN
                     /\ deposits' = [f.snap.deposits EXCEPT
                                       ![f.user] = @ - AmountToBridge]
                     /\ gasThresholds' = f.snap.gasThresholds
                     /\ authorizedSessions' = f.snap.authorizedSessions
    ]_vars

\* C12 witness: session s1, holding a deposit of its own, has bridged for u1
\* paying more than the fee; u1's deposit went from 0.1 ether to 0 and the
\* deposits of s1 and u2 are still there.
C12_Witness ==
  /\ stack = <<>>
  /\ last = Result("checkGasAndBridge", "u1", "s1", 0, "ok")
  /\ bridgeInitiated["u1"] = 1
  /\ deposits["u1"] = 0
  /\ deposits["s1"] = 5
  /\ deposits["u2"] = 5
  /\ gasThresholds["u2"] = 40
  /\ authorizedSessions["u1"]["s1"]

\* C13: a grant is false until its user authorizes it and, once revoked, stays
\* false until that user authorizes it again; while the grant (u, s) is
\* revoked every checkGasAndBridge(u) attempted by s is rejected with the
\* unauthorized-caller error, and while the grant is false every
\* executeLimitOrder(u, id) attempted by s is rejected as not authorized and
\* leaves the order as it was.
C13_RevokedSessionRejectedAsUnauthorized ==
  /\ [](\A u \in Users : \A s \in Addr \ {u} :
          /\ (contract = "Agent" /\ stack = <<>>
                /\ sessionAuthorizedAt[u][s] > 0 /\ ~isSessionAuthorized(u, s))
               => \A v \in PayInputs, f \in QuoteFees :
                    BridgeError(u, s, v, f) = "Caller not authorized session"
          /\ (contract = "LimitOrderAgent" /\ ~loIsSessionAuthorized(u, s))
               => \A i \in OrderIds :
                    ExecuteLimitOrderError(u, s, i) = "Not authorized")
  /\ [][/\ \A u \in Users, s \in Addr :
             /\ (~authorizedSessions[u][s] /\ authorizedSessions'[u][s])
                  => \/ AuthorizeSession(u, s)
                     \/ Len(stack') < Len(stack)
             /\ (~loAuthorizedSessions[u][s] /\ loAuthorizedSessions'[u][s])
                  => LoAuthorizeSession(u, s)
        /\ orders' = orders
           \/ \A u \in Users : \A s \in Addr \ {u}, i \in OrderIds :
                ~(~loAuthorizedSessions[u][s] /\ ExecuteLimitOrder(u, s, i))
       ]_vars

\* C13 witness: u1 holds the transfer amount and a threshold of 40, and has
\* authorized and then revoked s1.
C13_Witness ==
  /\ contract = "Agent"
  /\ stack = <<>>
  /\ gasThresholds["u1"] = 40
  /\ deposits["u1"] = AmountToBridge
  /\ sessionAuthorizedAt["u1"]["s1"] > 0
  /\ ~isSessionAuthorized("u1", "s1")
  /\ last = Result("revokeSession", "u1", "u1", 0, "ok")

\* C14: authorizeSession is idempotent.  A call for a grant that is already
\* true raises no error, leaves the grant true and every other grant as it
\* was, and in Agent sets sessionAuthorizedAt of that grant, and of no other,
\* to the time of this latest call; the first call sets the grant true, so the
\* grant is true after each of two calls in a row.
C14_AuthorizeSessionIdempotent ==
  /\ [](\A c \in Users, s \in SessionAccountInputs :
          /\ authorizedSessions[c][s] => AuthorizeSessionError(c, s) = "ok"
          /\ loAuthorizedSessions[c][s] => LoAuthorizeSessionError(c, s) = "ok")
  /\ [][/\ (contract = "Agent" /\ last'.op = "authorizeSession")
             => \A c \in Users, s \in SessionAccountInputs :
                  (AuthorizeSessionError(c, s) = "ok" /\ AuthorizeSession(c, s))
                    => /\ isSessionAuthorized(c, s)'
                       /\ authorizedSessions' =
                            [authorizedSessions EXCEPT ![c][s] = TRUE]
                       /\ sessionAuthorizedAt' =
                            [sessionAuthorizedAt EXCEPT ![c][s] = now]
                       /\ last' = Result("authorizeSession", c, c, 0, "ok")
                       /\ authorizedSessions[c][s]
                            => authorizedSessions' = authorizedSessions
        /\ (contract = "LimitOrderAgent" /\ now' = now)
             => \A c \in Users, s \in SessionAccountInputs :
                  (LoAuthorizeSessionError(c, s) = "ok" /\ LoAuthorizeSession(c, s))
                    => /\ loIsSessionAuthorized(c, s)'
                       /\ loAuthorizedSessions' =
                            [loAuthorizedSessions EXCEPT ![c][s] = TRUE]
                       /\ loAuthorizedSessions[c][s]
                            => loAuthorizedSessions' = loAuthorizedSessions
       ]_vars

\* C14 witness: u1 authorized s1 and u2 at time 1 and has just authorized s1
\* again at time 2; both grants are true and only s1's timestamp is 2.
C14_Witness ==
  /\ contract = "Agent"
  /\ now = 2
  /\ last = Result("authorizeSession", "u1", "u1", 0, "ok")
  /\ isSessionAuthorized("u1", "s1")
  /\ isSessionAuthorized("u1", "u2")
  /\ sessionAuthorizedAt["u1"]["s1"] = 2
  /\ sessionAuthorizedAt["u1"]["u2"] = 1

\* C15: revokeSession(s) by u fails with 'Session not authorized' whenever the
\* grant (u, s) is not true (never authorized, or already revoked), and the
\* failed call changes no state; it succeeds exactly when the grant is true
\* and then sets that grant to false; a grant goes from true to false in no
\* other way.
C15_RevokeRequiresTrueGrant ==
  /\ [](\A c \in Users, s \in SessionAccountInputs :
          /\ RevokeSessionError(c, s) =
               IF isSessionAuthorized(c, s) THEN "ok" ELSE "Session not authorized"
          /\ LoRevokeSessionError(c, s) =
               IF loIsSessionAuthorized(c, s) THEN "ok" ELSE "Session not authorized")
  /\ [][/\ \/ UNCHANGED <<agentVars, loVars, last, now, stack>>
           \/ \A c \in Users, s \in SessionAccountInputs :
                /\ ~(~authorizedSessions[c][s] /\ RevokeSession(c, s))
                /\ ~(~loAuthorizedSessions[c][s] /\ LoRevokeSession(c, s))
        /\ (authorizedSessions' # authorizedSessions
              \/ loAuthorizedSessions' # loAuthorizedSessions)
             => \A c \in Users, s \in SessionAccountInputs :
                  /\ (authorizedSessions[c][s] /\ RevokeSession(c, s))
                       => /\ authorizedSessions' =
                               [authorizedSessions EXCEPT ![c][s] = FALSE]
                          /\ ~isSessionAuthorized(c, s)'
                  /\ (loAuthorizedSessions[c][s] /\ LoRevokeSession(c, s))
                       => /\ loAuthorizedSessions' =
                               [loAuthorizedSessions EXCEPT ![c][s] = FALSE]
                          /\ ~loIsSessionAuthorized(c, s)'
                  /\ (authorizedSessions[c][s] /\ ~authorizedSessions'[c][s])
                       => RevokeSession(c, s)
                  /\ (loAuthorizedSessions[c][s] /\ ~loAuthorizedSessions'[c][s])
                       => LoRevokeSession(c, s)
       ]_vars

\* C15 witness: u1 authorized s1 and has revoked it, so a second revokeSession
\* would now fail, as would u2's revoke of a session it never authorized.
C15_Witness ==
  /\ contract = "Agent"
  /\ last = Result("revokeSession", "u1", "u1", 0, "ok")
  /\ sessionAuthorizedAt["u1"]["s1"] = 1
  /\ now = 2
  /\ ~isSessionAuthorized("u1", "s1")
  /\ RevokeSessionError("u1", "s1") = "Session not authorized"
  /\ sessionAuthorizedAt["u2"]["s1"] = 0
  /\ RevokeSessionError("u2", "s1") = "Session not authorized"

\* C16: no self-delegation and no null session.  In every reachable state
\* the grant of an address to itself and the grant of an address to the null
\* address are false; authorizeSession(caller) fails with the
\* self-authorization error and authorizeSession(0) with the invalid-session
\* error, and neither call changes state.
C16_NoSelfOrNullSession ==
  /\ [](\A u \in Addr :
          /\ ~isSessionAuthorized(u, u)
          /\ ~isSessionAuthorized(u, Null)
          /\ ~loIsSessionAuthorized(u, u)
          /\ ~loIsSessionAuthorized(u, Null)
          /\ AuthorizeSessionError(u, u) = "Cannot authorize self as session"
          /\ AuthorizeSessionError(u, Null) = "Invalid session address"
          /\ LoAuthorizeSessionError(u, u) = "Cannot authorize self"
          /\ LoAuthorizeSessionError(u, Null) = "Invalid address")
  /\ [][\/ /\ UNCHANGED <<agentVars, loVars, last, now>>
           /\ Len(stack') = Len(stack)
        \/ \A c \in Users :
             /\ ~AuthorizeSession(c, c)
             /\ ~AuthorizeSession(c, Null)
             /\ ~LoAuthorizeSession(c, c)
             /\ ~LoAuthorizeSession(c, Null)
       ]_vars

\* C16 witness: u1 has authorized s1, in a call made while a bridge for u2 was
\* in flight, and still has no grant to itself or to the null address.
C16_Witness ==
  /\ contract = "Agent"
  /\ stack # <<>>
  /\ Head(stack).user = "u2"
  /\ Head(stack).nested = 1
  /\ last = Result("authorizeSession", "u1", "u1", 0, "ok")
  /\ isSessionAuthorized("u1", "s1")
  /\ ~isSessionAuthorized("u1", "u1")
  /\ ~isSessionAuthorized("u1", Null)

\* C17: session grants are independent.  authorizeSession(s) or
\* revokeSession(s) called by u changes at most the grant (u, s) and its
\* timestamp: every other grant of u, every grant of another user, every
\* deposit and every threshold is as before.
C17_GrantsIndependent ==
  [][/\ \/ UNCHANGED <<authorizedSessions, sessionAuthorizedAt, deposits, gasThresholds>>
        \/ \A c \in Users, s \in SessionAccountInputs :
             (AuthorizeSession(c, s) \/ RevokeSession(c, s))
               => /\ \A u \in Addr, x \in SessionAccountInputs :
                       (u # c \/ x # s)
                         => /\ authorizedSessions'[u][x] = authorizedSessions[u][x]
                            /\ sessionAuthorizedAt'[u][x] = sessionAuthorizedAt[u][x]
                  /\ deposits' = deposits
                  /\ gasThresholds' = gasThresholds
     /\ \/ UNCHANGED <<loAuthorizedSessions, loDeposits, orders>>
        \/ \A c \in Users, s \in SessionAccountInputs :
             (LoAuthorizeSession(c, s) \/ LoRevokeSession(c, s))
               => /\ \A u \in Addr, x \in SessionAccountInputs :
                       (u # c \/ x # s)
                         => loAuthorizedSessions'[u][x] = loAuthorizedSessions[u][x]
                  /\ loDeposits' = loDeposits
                  /\ orders' = orders
    ]_vars

\* C17 witness: u1, holding a deposit and a threshold, authorized s1 and u2
\* and has just revoked u2; its grant to s1 and u2's grant to s1 are still
\* true.
C17_Witness ==
  /\ contract = "Agent"
  /\ last = Result("revokeSession", "u1", "u1", 0, "ok")
  /\ isSessionAuthorized("u1", "s1")
  /\ ~isSessionAuthorized("u1", "u2")
  /\ sessionAuthorizedAt["u1"]["u2"] > 0
  /\ isSessionAuthorized("u2", "s1")
  /\ deposits["u1"] = 10
  /\ gasThresholds["u1"] = 40

\* C18: a session grant conveys execute only.  For a user u and a caller
\* c # u, authorized by u or not, no withdraw, setGasThreshold,
\* authorizeSession, revokeSession or cancelLimitOrder call made by c changes
\* u's deposit, threshold, grants or orders; a step that lowers u's deposit
\* without being u's own withdraw is a checkGasAndBridge(u) passing its checks
\* (or the revert of a call); and no operation pays u's deposited funds out to
\* c: when ETH leaves LimitOrderAgent for a payee c, the balance that covered
\* the ETH deposits of everyone else still covers them.
C18_GrantConveysExecuteOnly ==
  [][/\ \A u \in Users : \A c \in Addr \ {u} :
          (\/ \E a \in WithdrawInputs : Withdraw(c, a)
           \/ \E t \in ThresholdInputs : SetGasThreshold(c, t)
           \/ \E s \in SessionAccountInputs : AuthorizeSession(c, s)
           \/ \E s \in SessionAccountInputs : RevokeSession(c, s)
           \/ \E t \in Tokens, ok \in BOOLEAN :
                \E a \in AmountInputs \cup {loDeposits[c][t]} : LoWithdraw(c, t, a, ok)
           \/ \E i \in OrderIds : CancelLimitOrder(c, i)
           \/ \E s \in SessionAccountInputs : LoAuthorizeSession(c, s)
           \/ \E s \in SessionAccountInputs : LoRevokeSession(c, s))
            => /\ deposits'[u] = deposits[u]
               /\ gasThresholds'[u] = gasThresholds[u]
               /\ authorizedSessions'[u] = authorizedSessions[u]
               /\ loDeposits'[u] = loDeposits[u]
               /\ loAuthorizedSessions'[u] = loAuthorizedSessions[u]
               /\ orders'[u] = orders[u]
     /\ \A u \in Users :
          deposits'[u] < deposits[u]
            => \/ \E a \in WithdrawInputs : Withdraw(u, a)
               \/ \E c \in Addr, v \in PayInputs, f \in QuoteFees :
                    BridgeError(u, c, v, f) = "ok" /\ CheckGasAndBridge(u, c, v, f)
               \/ Len(stack') < Len(stack)
     /\ loBalance' < loBalance
          => LET others(d, c) ==
                   (IF c = "u1" THEN 0 ELSE d["u1"][Null])
                   + (IF c = "u2" THEN 0 ELSE d["u2"][Null])
                   + (IF c = "s1" THEN 0 ELSE d["s1"][Null])
             IN
             /\ \A c \in LoAddr :
                  (\E ok \in BOOLEAN : EmergencyWithdraw(c, ok))
                    => (loBalance >= others(loDeposits, c)
                          => loBalance' >= others(loDeposits', c))
             /\ \A c \in Addr :
                  (\E t \in Tokens, ok \in BOOLEAN :
                     \E a \in AmountInputs \cup {loDeposits[c][t]} :
                       LoWithdraw(c, t, a, ok))
                    => (loBalance >= others(loDeposits, c)
                          => loBalance' >= others(loDeposits', c))
    ]_vars

\* C18 witness: u1 has deposited ETH in LimitOrderAgent and the contract holds
\* none of it any more, though u1 withdrew nothing and no order of u1 was
\* executed.
C18_Witness ==
  /\ contract = "LimitOrderAgent"
  /\ loDeposits["u1"][Null] = 1
  /\ loDeposits["u2"][Null] = 0
  /\ loDeposits["s1"][Null] = 0
  /\ loBalance = 0
  /\ totalOrdersExecuted = 0
  /\ loOwner = Deployer

\* C19: setGasThreshold(0) fails with the invalid-threshold error and leaves
\* the stored threshold as it was; every value >= 1, 1 included, is accepted
\* and overwrites the caller's threshold whatever it was before, so that
\* getGasThreshold(caller) then returns that value; a threshold changes in no
\* other way, so getGasThreshold of a user who never set one returns 0.
C19_SetGasThreshold ==
  /\ \A a \in Addr : getGasThreshold(a) = 0
  /\ [](/\ SetGasThresholdError(0) = "Threshold must be greater than zero"
        /\ SetGasThresholdError(1) = "ok"
        /\ \A t \in ThresholdValueInputs \ {0} : SetGasThresholdError(t) = "ok")
  /\ [][/\ \A c \in Addr, t \in ThresholdValueInputs :
             SetGasThreshold(c, t)
               => IF t = 0
                  THEN /\ gasThresholds' = gasThresholds
                       /\ getGasThreshold(c)' = getGasThreshold(c)
                       /\ last' = last
                  ELSE /\ gasThresholds' = [gasThresholds EXCEPT ![c] = t]
                       /\ getGasThreshold(c)' = t
                       /\ last' = Result("setGasThreshold", c, c, 0, "ok")
        /\ \A a \in Addr :
             gasThresholds'[a] # gasThresholds[a]
               => \E t \in ThresholdValueInputs \ {0} :
                    SetGasThreshold(a, t) /\ gasThresholds'[a] = t
       ]_vars

\* C19 witness: s1 has set its threshold to 1 and u1 has overwritten an
\* earlier threshold, the last write being 2, while u2 never set one.
C19_Witness ==
  /\ last = Result("setGasThreshold", "u1", "u1", 0, "ok")
  /\ getGasThreshold("u1") = 2
  /\ getGasThreshold("s1") = 1
  /\ getGasThreshold("u2") = 0

\* C20: Agent.withdraw(amount) fails with the zero-amount error when amount
\* is 0 and with the insufficient-balance error when amount exceeds the
\* caller's deposit, and a failing call changes nothing; otherwise it
\* subtracts amount from the caller's deposit and pays amount to the caller;
\* if the payout fails the whole withdrawal fails and the deposit is what it
\* was before the call.
C20_WithdrawChecksAndAtomicPayout ==
  /\ [](\A c \in Users :
          /\ WithdrawError(c, 0) = "Must withdraw something"
          /\ \A a \in WithdrawInputs \ {0} :
               WithdrawError(c, a) =
                 IF a > getDeposit(c) THEN "Insufficient deposit balance" ELSE "ok")
  /\ [][/\ \/ /\ UNCHANGED agentVars
              /\ Len(stack') = Len(stack)
              /\ last' = last
           \/ \A c \in Users, a \in WithdrawInputs :
                ~((a = 0 \/ a > deposits[c]) /\ Withdraw(c, a))
        /\ (Len(stack') = Len(stack) + 1 /\ Head(stack').op = "withdraw")
             => \A c \in Users, a \in WithdrawInputs :
                  (a > 0 /\ a <= deposits[c] /\ Withdraw(c, a))
                    => /\ deposits' = [deposits EXCEPT ![c] = @ - a]
                       /\ agentBalance' = agentBalance - a
                       /\ Head(stack').user = c
                       /\ Head(stack').caller = c
                       /\ Head(stack').value = a
        /\ (stack # <<>> /\ Head(stack).op = "withdraw" /\ Len(stack') < Len(stack))
             => \/ /\ WithdrawPayoutAccepted
                   /\ deposits' = deposits
                   /\ deposits'[Head(stack).user] =
                        Head(stack).snap.deposits[Head(stack).user] - Head(stack).value
                   /\ last' = Result("withdraw", Head(stack).user, Head(stack).user,
                                     0, "ok")
                \/ /\ WithdrawPayoutRejected
                   /\ deposits' = Head(stack).snap.deposits
                   /\ deposits'[Head(stack).user] =
                        deposits[Head(stack).user] + Head(stack).value
                   /\ agentBalance' = agentBalance + Head(stack).value
                   /\ last' = Result("withdraw", Head(stack).user, Head(stack).user,
                                     0, "Payout failed")
       ]_vars

\* C20 witness: u1's withdrawal of its whole deposit of 0.1 ether failed at
\* the payout, and the deposit is still 0.1 ether.
C20_Witness ==
  /\ stack = <<>>
  /\ last = Result("withdraw", "u1", "u1", 0, "Payout failed")
  /\ deposits["u1"] = 10
  /\ agentBalance = 10
  /\ WithdrawError("u1", 10) = "ok"

\* C21: round trip.  A deposit of X > 0 by u raises getDeposit(u) from its
\* prior value b to b + X, so successive deposits accumulate; right after it
\* withdraw(X) by u passes its checks, and a withdraw(X) lowers getDeposit(u)
\* by exactly X and pays exactly X out of the contract to u, so the deposit
\* followed by the withdrawal leaves b; no other deposit changes.
C21_DepositWithdrawRoundTrip ==
  /\ [](\A c \in Users :
          (stack = <<>> /\ last = Result("deposit", c, c, 0, "ok"))
            => /\ getDeposit(c) > 0
               /\ \A x \in DepositInputs \ {0} :
                    x <= getDeposit(c) => WithdrawError(c, x) = "ok")
  /\ [][/\ (Len(stack') = Len(stack) /\ last'.op = "deposit")
             => \A c \in Users, x \in DepositInputs \ {0} :
                  Deposit(c, x)
                    => /\ getDeposit(c)' = getDeposit(c) + x
                       /\ deposits' = [deposits EXCEPT ![c] = @ + x]
                       /\ agentBalance' = agentBalance + x
        /\ (Len(stack') = Len(stack) + 1 /\ Head(stack').op = "withdraw")
             => \A c \in Users, x \in WithdrawInputs \ {0} :
                  (x <= deposits[c] /\ Withdraw(c, x))
                    => /\ getDeposit(c)' = getDeposit(c) - x
                       /\ deposits' = [deposits EXCEPT ![c] = @ - x]
                       /\ agentBalance' = agentBalance - x
                       /\ Head(stack').value = x
                       /\ Head(stack').snap.deposits = deposits
        /\ (stack # <<>> /\ Head(stack).op = "withdraw" /\ WithdrawPayoutAccepted)
             => LET f == Head(stack) IN
                /\ deposits' =
                     [f.snap.deposits EXCEPT ![f.user] = @ - f.value]
                /\ agentBalance' = f.snap.agentBalance - f.value
                /\ last' = Result("withdraw", f.user, f.user, 0, "ok")
       ]_vars

\* C21 witness: u1 has withdrawn and is back at a balance of 0.05 ether, the
\* contract holding that and u2's two deposits of 0.05 ether.
C21_Witness ==
  /\ stack = <<>>
  /\ last = Result("withdraw", "u1", "u1", 0, "ok")
  /\ getDeposit("u1") = 5
  /\ getDeposit("u2") = 10
  /\ agentBalance = 15

\* C22: the authorization check of checkGasAndBridge comes first.  A call by
\* a caller other than the user who holds no grant from the user is rejected
\* with 'Caller not authorized session' whatever the trigger, the deposit and
\* the payment are, also when the trigger is not met and the user has no
\* deposit.
C22_AuthorizationCheckedFirst ==
  \A u \in Users : \A c \in Addr \ {u} :
    (contract = "Agent" /\ ~isSessionAuthorized(u, c))
      => \A v \in PayInputs, f \in QuoteFees :
           BridgeError(u, c, v, f) = "Caller not authorized session"

\* C22 witness: u1 has set a threshold of 40 and nothing else, holding no
\* deposit and having authorized nobody; the call of s1 for u1 is rejected,
\* by the trigger check.
C22_Witness ==
  /\ contract = "Agent"
  /\ stack = <<>>
  /\ last = Result("setGasThreshold", "u1", "u1", 0, "ok")
  /\ getGasThreshold("u1") = 40
  /\ getDeposit("u1") = 0
  /\ ~isSessionAuthorized("u1", "s1")
  /\ BridgeError("u1", "s1", 3, 1) = "No trigger: gas below threshold"

\* C23: with the trigger and the authorization satisfied,
\* checkGasAndBridge(user) is rejected with 'Insufficient deposit for bridge'
\* whenever the user's deposit is below the transfer amount, whatever the
\* payment, and with the insufficient-fee error when the deposit suffices and
\* the payment is below the quoted fee; either rejected call debits nothing
\* and opens no transport send.
C23_FundsCheckThenFeeCheck ==
  /\ [](\A u \in Users, c \in Addr, v \in PayInputs, f \in QuoteFees :
          (checkGas(u).shouldTrigger /\ isSessionAuthorized(u, c))
            => BridgeError(u, c, v, f) =
                 IF getDeposit(u) < AmountToBridge
                 THEN "Insufficient deposit for bridge"
                 ELSE IF v < f THEN "Insufficient LZ fee" ELSE "ok")
  /\ [][\/ /\ UNCHANGED agentVars
           /\ Len(stack') = Len(stack)
           /\ last' = last
        \/ \A u \in Users, c \in Addr, v \in PayInputs, f \in QuoteFees :
             ~(/\ checkGas(u).shouldTrigger
               /\ authorizedSessions[u][c]
               /\ (deposits[u] < AmountToBridge \/ v < f)
               /\ CheckGasAndBridge(u, c, v, f))
       ]_vars

\* C23 witness: both users' triggers hold and both have authorized s1; u1
\* holds less than the transfer amount, so an underpaid call for u1 fails at
\* the funds check, and u2 holds enough, so the same call for u2 fails at the
\* fee check.
C23_Witness ==
  /\ stack = <<>>
  /\ checkGas("u1").shouldTrigger /\ isSessionAuthorized("u1", "s1")
  /\ checkGas("u2").shouldTrigger /\ isSessionAuthorized("u2", "s1")
  /\ getDeposit("u1") = 5
  /\ getDeposit("u2") = 10
  /\ BridgeError("u1", "s1", 1, 2) = "Insufficient deposit for bridge"
  /\ BridgeError("u2", "s1", 1, 2) = "Insufficient LZ fee"
  /\ bridgeInitiated["u1"] = 0 /\ bridgeInitiated["u2"] = 0

\* C24: on every successful checkGasAndBridge with payment p and quoted fee
\* f (p >= f) the transport call carries exactly f, destination 40204 and the
\* message (user, 0.1 ether, timestamp, 'BRIDGE_TO_MONAD'); the
\* BridgeInitiated record is (user, 40204, 0.1 ether, f); exactly p - f is
\* refunded to the caller; and once the call has completed the contract holds
\* what it held before the call, none of the payment.
C24_FeeForwardedExcessRefunded ==
  [][/\ (Len(stack') = Len(stack) + 1 /\ Head(stack').op = "bridge")
          => \A u \in Users, c \in Addr, p \in PayInputs, f \in QuoteFees :
               (BridgeError(u, c, p, f) = "ok" /\ CheckGasAndBridge(u, c, p, f))
                 => /\ p >= f
                    /\ Head(stack').pc = "lzSend"
                    /\ Head(stack').fee = f
                    /\ Head(stack').value = p
                    /\ Head(stack').caller = c
                    /\ Head(stack').dstEid = 40204
                    /\ Head(stack').message = <<u, 10, now, "BRIDGE_TO_MONAD">>
                    /\ agentBalance' = agentBalance + p - f
     /\ (stack # <<>> /\ Head(stack).op = "bridge" /\ Head(stack).pc = "lzSend"
           /\ Head(stack).value >= Head(stack).fee /\ LzSendReturns)
          => LET f == Head(stack) IN
             /\ bridgeInitiated' = [bridgeInitiated EXCEPT ![f.user] = @ + 1]
             /\ BridgeInitiatedEvent(f.user, f.dstEid, AmountToBridge, f.fee)
                  = <<f.user, 40204, 10, f.fee>>
             /\ IF f.value > f.fee
                THEN /\ Len(stack') = Len(stack)
                     /\ Head(stack').pc = "refund"
                     /\ Head(stack').event = <<f.user, 40204, 10, f.fee>>
                     /\ agentBalance' = agentBalance - (f.value - f.fee)
                ELSE /\ stack' = Tail(stack)
                     /\ agentBalance' = agentBalance
                     /\ last' = Result("checkGasAndBridge", f.user, f.caller, 0, "ok")
     /\ (stack # <<>> /\ Head(stack).op = "bridge" /\ Head(stack).nested = 0
           /\ Head(stack).value >= Head(stack).fee
           /\ (LzSendReturns \/ RefundAccepted) /\ stack' = Tail(stack))
          => /\ agentBalance' = Head(stack).snap.agentBalance
             /\ last'.err = "ok"
    ]_vars

\* C24 witness: s1 has paid 3 for a bridge of u1 quoted at 2, the fee has
\* gone to the transport, the record has been emitted and the refund of 1 is
\* on its way to s1; the contract holds u1's deposit and nothing of the
\* payment.
C24_Witness ==
  /\ stack # <<>>
  /\ Head(stack).op = "bridge"
  /\ Head(stack).pc = "refund"
  /\ Head(stack).user = "u1" /\ Head(stack).caller = "s1"
  /\ Head(stack).value = 3 /\ Head(stack).fee = 2
  /\ Head(stack).event = <<"u1", 40204, 10, 2>>
  /\ Head(stack).message = <<"u1", 10, 1, "BRIDGE_TO_MONAD">>
  /\ Head(stack).snap.agentBalance = 10
  /\ agentBalance = 10
  /\ bridgeInitiated["u1"] = 1

\* C25: stale oracle data is rejected.  When the oracle's reading is older
\* than the staleness bound of 5 minutes, checkGas fails with 'Stale oracle
\* data' instead of answering, and so no checkGasAndBridge passes its checks
\* on a stale reading.
C25_StaleReadingRejected ==
  \A age \in OracleAgeInputs :
    (contract = "Agent" /\ age > 5)
      => /\ CheckGasError(age) = "Stale oracle data"
         /\ \A u \in Users, c \in Addr, v \in PayInputs, f \in QuoteFees :
              (IF CheckGasError(age) # "ok" THEN CheckGasError(age)
               ELSE BridgeError(u, c, v, f)) # "ok"

\* C25 witness: a bridge for u1 has completed, checkGas having answered
\* without looking at the oracle, whose reading may have been 10 minutes old.
C25_Witness ==
  /\ stack = <<>>
  /\ last = Result("checkGasAndBridge", "u1", "s1", 0, "ok")
  /\ bridgeInitiated["u1"] = 1
  /\ bridgeInitiated["u2"] = 0
  /\ CheckGasError(10) = "ok"
  /\ checkGas("u1").currentGasGwei = getMockGas

\* ---------------------------------------------------------------------
\* C26: createLimitOrder is rejected, leaving deposits, orders and the
\* caller's order counter unchanged, when amountIn is 0 ("Amount must be
\* > 0"), limitPrice is 0 ("Price must be > 0"), daysValid is 0 or above
\* 365 ("Invalid expiration"), or the caller's deposit of tokenIn is below
\* amountIn ("Insufficient deposit").  Every stored order therefore has
\* amountIn > 0, limitPrice > 0 and expires between 1 and 365 days after
\* its creation, and a validity of 365 days is accepted.
C26_Rejections ==
  \A c \in Users, t \in Tokens, a \in AmountInputs, lp \in LimitPriceInputs,
     d \in OrderDaysInputs :
    LET e == CreateLimitOrderError(c, t, a, lp, d) IN
      /\ a = 0 => e = "Amount must be > 0"
      /\ (lp = 0 \/ d = 0 \/ d > 365 \/ loDeposits[c][t] < a) => e # "ok"
      /\ a > 0 /\ lp = 0 => e = "Price must be > 0"
      /\ a > 0 /\ lp > 0 /\ (d = 0 \/ d > 365) => e = "Invalid expiration"
      /\ a > 0 /\ lp > 0 /\ d \in 1..365 /\ loDeposits[c][t] < a
           => e = "Insufficient deposit"
      /\ a > 0 /\ lp > 0 /\ d = 365 /\ loDeposits[c][t] >= a => e = "ok"

C26_StoredOrders ==
  \A u \in Users, i \in OrderIds :
    orders[u][i] # NoOrder =>
      /\ orders[u][i].amountIn > 0
      /\ orders[u][i].limitPrice > 0
      /\ orders[u][i].expiresAt > 0

C26_RejectedChangesNothing ==
  UNCHANGED <<loDeposits, orders, orderCount>>
  \/ \A c \in Users, p \in TokenPairInputs, a \in AmountInputs,
        lp \in LimitPriceInputs, d \in OrderDaysInputs, b \in BOOLEAN :
       ~(/\ CreateLimitOrderError(c, p[1], a, lp, d) # "ok"
         /\ CreateLimitOrder(c, p[1], p[2], a, lp, d, b))

C26_CreatedWithinRange ==
  totalOrdersCreated' = totalOrdersCreated + 1 =>
    \A c \in Users, p \in TokenPairInputs, a \in AmountInputs,
       lp \in LimitPriceInputs, d \in OrderDaysInputs, b \in BOOLEAN :
      CreateLimitOrder(c, p[1], p[2], a, lp, d, b) =>
        LET o == orders'[c][orderCount[c]] IN
          /\ o.isActive
          /\ o.amountIn > 0 /\ o.limitPrice > 0
          /\ o.expiresAt - now \in 1..365
          /\ o.expiresAt = now + d

C26_CreateLimitOrderRejections ==
  /\ [](C26_Rejections /\ C26_StoredOrders)
  /\ [][C26_RejectedChangesNothing /\ C26_CreatedWithinRange]_vars

\* An active order valid for the full 365 days is stored.
C26_Witness ==
  \E u \in Users, i \in OrderIds :
    /\ orders[u][i].isActive
    /\ orders[u][i].expiresAt >= 365
    /\ orders[u][i].amountIn > 0

\* ---------------------------------------------------------------------
\* C27: order ids are sequential per user starting at 0.  The n-th
\* successful createLimitOrder of a user is stored under id n - 1 whatever
\* the other users do; orderCount[user] grows by exactly 1 on a successful
\* creation and on nothing else (not on a rejected creation, a cancel or an
\* execute); no id is reused, so a later creation never overwrites the
\* record of an earlier one.
C27_IdsFilledInSequence ==
  \A u \in Users :
    /\ orderCount[u] \in 0..(MaxOrders + 1)
    /\ \A i \in OrderIds :
         IF i < orderCount[u] THEN orders[u][i].user = u
                              ELSE orders[u][i] = NoOrder

C27_CreationTakesNextId ==
  totalOrdersCreated' = totalOrdersCreated + 1 =>
    \A c \in Users, o \in OrderBookInputs, a \in AmountInputs,
       lp \in LimitPriceInputs, d \in OrderBookDaysInputs :
      CreateLimitOrderCall(c, o[1], o[2], a, lp, d, o[3]) =>
        /\ orderCount'[c] = orderCount[c] + 1
        /\ orders[c][orderCount[c]] = NoOrder
        /\ orders'[c][orderCount[c]].user = c
        /\ orders'[c][orderCount[c]].isActive
        /\ \A u \in Users : u # c => orderCount'[u] = orderCount[u]
        /\ \A u \in Users, i \in OrderIds :
             (u # c \/ i # orderCount[c]) => orders'[u][i] = orders[u][i]

C27_CounterMovesOnlyOnCreation ==
  \/ totalOrdersCreated' = totalOrdersCreated + 1
  \/ UNCHANGED orderCount

C27_RecordNeverOverwritten ==
  \A u \in Users, i \in OrderIds :
    orders[u][i] # NoOrder =>
      [orders'[u][i] EXCEPT !.isActive = FALSE]
        = [orders[u][i] EXCEPT !.isActive = FALSE]

C27_SequentialOrderIds ==
  /\ []C27_IdsFilledInSequence
  /\ [][/\ C27_CreationTakesNextId
        /\ C27_CounterMovesOnlyOnCreation
        /\ C27_RecordNeverOverwritten]_vars

\* Both users have created two orders, ids 0 and 1, one of them since
\* cancelled or executed.
C27_Witness ==
  /\ \A u \in Users : orderCount[u] = 2 /\ orders[u][1].user = u
  /\ \E u \in Users : ~orders[u][0].isActive /\ orders[u][1].isActive

\* ---------------------------------------------------------------------
\* C28: locking and refund are exact.  A successful createLimitOrder lowers
\* the caller's (user, tokenIn) deposit by exactly amountIn; a successful
\* cancelLimitOrder raises the same slot by exactly the order's amountIn;
\* create followed by cancel returns every deposit slot to its prior
\* value; cancelling k of n equal orders refunds exactly k * amountIn; no
\* other slot changes.
\*
\* The amount user u has locked in token t: the sum of amountIn over the
\* active orders of u with tokenIn = t, ids 0 .. n.
RECURSIVE C28_Locked(_, _, _, _)
C28_Locked(ords, u, t, n) ==
  IF n < 0 THEN 0
  ELSE (IF ords[u][n].isActive /\ ords[u][n].tokenIn = t
          THEN ords[u][n].amountIn ELSE 0)
       + C28_Locked(ords, u, t, n - 1)

C28_CreateLocksExactly ==
  totalOrdersCreated' = totalOrdersCreated + 1 =>
    \A c \in Users, o \in OrderBookInputs, a \in AmountInputs,
       lp \in LimitPriceInputs, d \in OrderBookDaysInputs :
      CreateLimitOrderCall(c, o[1], o[2], a, lp, d, o[3]) =>
        LET stored == orders'[c][orderCount[c]] IN
          /\ loDeposits' = [loDeposits EXCEPT ![c][o[1]] = @ - a]
          /\ stored.tokenIn = o[1] /\ stored.amountIn = a
          /\ [loDeposits' EXCEPT ![c][stored.tokenIn] = @ + stored.amountIn]
               = loDeposits

C28_CancelRefundsExactly ==
  (/\ orders' # orders
   /\ totalOrdersCreated' = totalOrdersCreated
   /\ totalOrdersExecuted' = totalOrdersExecuted) =>
    \A c \in Users, i \in OrderIds :
      (CancelLimitOrderError(c, i) = "ok" /\ CancelLimitOrder(c, i)) =>
        loDeposits' = [loDeposits EXCEPT ![c][orders[c][i].tokenIn] =
                         @ + orders[c][i].amountIn]

C28_FreePlusLockedConserved ==
  (/\ orders' # orders
   /\ totalOrdersExecuted' = totalOrdersExecuted) =>
    \A u \in Users, t \in Tokens :
      loDeposits'[u][t] + C28_Locked(orders', u, t, MaxOrders)
        = loDeposits[u][t] + C28_Locked(orders, u, t, MaxOrders)

C28_LockAndRefundExact ==
  [][/\ C28_CreateLocksExactly
     /\ C28_CancelRefundsExactly
     /\ C28_FreePlusLockedConserved]_vars

\* One of two equal orders of a user is cancelled, the other still active:
\* of the 2 * amountIn locked, exactly 1 * amountIn is back in the slot.
C28_Witness ==
  \E u \in Users :
    /\ orderCount[u] = 2
    /\ orders[u][0].tokenIn = orders[u][1].tokenIn
    /\ orders[u][0].amountIn = orders[u][1].amountIn
    /\ ~orders[u][0].isActive /\ executions[u][0] = 0
    /\ orders[u][1].isActive
    /\ loDeposits[u][orders[u][0].tokenIn] = orders[u][0].amountIn

\* ---------------------------------------------------------------------
\* C29: an order's isActive flag goes from true to false exactly once, by
\* a cancellation or by an execution, and never back to true.  An inactive
\* order can be neither cancelled again (the second cancel fails with
\* "Order not active" and refunds nothing) nor executed.  Order records are
\* never deleted, and user, tokens, amountIn, limitPrice, expiresAt and
\* isBuy never change after creation.
C29_InactiveIsRejected ==
  \A u \in Users, i \in OrderIds :
    ~orders[u][i].isActive =>
      /\ CancelLimitOrderError(u, i) = "Order not active"
      /\ \A c \in Users : ExecuteLimitOrderError(u, c, i) # "ok"

C29_InactiveStaysAsItIs ==
  \A u \in Users, i \in OrderIds :
    (orders[u][i] # NoOrder /\ ~orders[u][i].isActive) =>
      orders'[u][i] = orders[u][i]

C29_OnlyTheFlagChanges ==
  \A u \in Users, i \in OrderIds :
    orders[u][i].isActive =>
      \/ orders'[u][i] = orders[u][i]
      \/ /\ orders'[u][i] = [orders[u][i] EXCEPT !.isActive = FALSE]
         /\ \/ /\ executions'[u][i] = executions[u][i] + 1
               /\ totalOrdersExecuted' = totalOrdersExecuted + 1
            \/ /\ UNCHANGED <<executions, totalOrdersExecuted>>
               /\ loDeposits'[u][orders[u][i].tokenIn]
                    = loDeposits[u][orders[u][i].tokenIn] + orders[u][i].amountIn

C29_RejectedCancelRefundsNothing ==
  UNCHANGED <<orders, loDeposits>>
  \/ \A c \in Users, i \in OrderIds :
       ~(CancelLimitOrderError(c, i) # "ok" /\ CancelLimitOrder(c, i))

C29_DeactivatedOnceForGood ==
  /\ []C29_InactiveIsRejected
  /\ [][/\ C29_InactiveStaysAsItIs
        /\ C29_OnlyTheFlagChanges
        /\ C29_RejectedCancelRefundsNothing]_vars

\* A user holds a cancelled order and an executed order, both inactive.
C29_Witness ==
  \E u \in Users :
    /\ orders[u][0].user = u /\ ~orders[u][0].isActive
    /\ orders[u][1].user = u /\ ~orders[u][1].isActive
    /\ executions[u][0] + executions[u][1] = 1

\* ---------------------------------------------------------------------
\* C30: only the order's owner can cancel it.  When user2 calls
\* cancelLimitOrder with the id of an active order created by user1, the
\* call fails with "Not your order", and user1's order stays active with
\* its locked amount unrefunded.
C30_FailsWithNotYourOrder ==
  \A u1 \in Users : \A u2 \in Users \ {u1} : \A i \in OrderIds :
    (orders[u1][i].isActive /\ orders[u1][i].user = u1) =>
      CancelLimitOrderError(u2, i) = "Not your order"

C30_OwnersOrderUntouched ==
  \A u1 \in Users : \A u2 \in Users \ {u1} : \A i \in OrderIds :
    (orders[u1][i].isActive /\ CancelLimitOrder(u2, i)) =>
      /\ orders'[u1][i] = orders[u1][i]
      /\ loDeposits'[u1] = loDeposits[u1]

C30_OnlyOwnerCancels ==
  /\ []C30_FailsWithNotYourOrder
  /\ [][C30_OwnersOrderUntouched]_vars

\* user1 holds an active order under an id at which user2 holds none: the
\* case of testCancelLimitOrder_RevertsNotOwner.
C30_Witness ==
  /\ orders["u1"][0].isActive /\ orders["u1"][0].user = "u1"
  /\ orders["u2"][0] = NoOrder
  /\ CancelLimitOrderError("u2", 0) = "Order not active"

\* ---------------------------------------------------------------------
\* C31: executeLimitOrder succeeds on an active, unexpired order only when
\* the price condition holds at the time of the call: current price <=
\* limitPrice for a buy order, current price >= limitPrice for a sell
\* order, equality executing.  Otherwise it fails with "Price condition not
\* met" and the order stays active.  The price is read on every call, so
\* an order rejected at one price executes once the price satisfies the
\* condition.
C31_PriceDecidesAtTheCall ==
  \A u \in Users, c \in Addr, i \in OrderIds :
    LET o == orders[u][i] IN
    (/\ o.isActive /\ now < o.expiresAt
     /\ (c = u \/ loAuthorizedSessions[u][c])) =>
      IF \/ o.isBuy /\ mockPrice <= o.limitPrice
         \/ ~o.isBuy /\ mockPrice >= o.limitPrice
      THEN ExecuteLimitOrderError(u, c, i) = "ok"
      ELSE ExecuteLimitOrderError(u, c, i) = "Price condition not met"

C31_RejectedOnPriceStaysActive ==
  UNCHANGED <<orders, loDeposits, totalOrdersExecuted>>
  \/ \A u \in Users, c \in Addr, i \in OrderIds :
       ~(/\ ExecuteLimitOrderError(u, c, i) = "Price condition not met"
         /\ ExecuteLimitOrder(u, c, i))

C31_ExecutedOnlyWhenConditionHolds ==
  totalOrdersExecuted' = totalOrdersExecuted + 1 =>
    \A u \in Users, i \in OrderIds :
      (orders[u][i].isActive /\ ~orders'[u][i].isActive) =>
        IF orders[u][i].isBuy THEN mockPrice <= orders[u][i].limitPrice
        ELSE mockPrice >= orders[u][i].limitPrice

C31_PriceCondition ==
  /\ []C31_PriceDecidesAtTheCall
  /\ [][C31_RejectedOnPriceStaysActive /\ C31_ExecutedOnlyWhenConditionHolds]_vars

\* A buy order with limit 3000 was executed after the price had moved from
\* 3000 to 2500.
C31_Witness ==
  \E u \in Users, i \in OrderIds :
    /\ executions[u][i] = 1
    /\ orders[u][i].isBuy /\ orders[u][i].limitPrice = 3000
    /\ mockPrice = 2500
    /\ loDeposits[u][orders[u][i].tokenOut] = 2450

\* ---------------------------------------------------------------------
\* C32: an order can be executed only strictly before its expiry.
\* executeLimitOrder at a time t >= expiresAt fails with "Order expired"
\* even if the price condition is met and the caller is authorized, and the
\* order stays active with its amount locked; at any t < expiresAt expiry
\* does not block execution.  For an inactive and expired order the
\* reported error is "Order not active".
C32_ExpiryDecides ==
  \A u \in Users, c \in Addr, i \in OrderIds :
    LET o == orders[u][i]
        e == ExecuteLimitOrderError(u, c, i)
    IN
    (c = u \/ loAuthorizedSessions[u][c]) =>
      /\ (o.isActive /\ now >= o.expiresAt) => e = "Order expired"
      /\ (o.isActive /\ now < o.expiresAt) => e # "Order expired"
      /\ (o.isActive /\ now < o.expiresAt /\ PriceConditionMet(o, mockPrice))
           => e = "ok"
      /\ ~o.isActive => e = "Order not active"

C32_ExpiredStaysActiveAndLocked ==
  UNCHANGED <<orders, loDeposits, totalOrdersExecuted>>
  \/ \A u \in Users, c \in Addr, i \in OrderIds :
       ~(/\ ExecuteLimitOrderError(u, c, i) = "Order expired"
         /\ ExecuteLimitOrder(u, c, i))

C32_ExecutedOnlyBeforeExpiry ==
  totalOrdersExecuted' = totalOrdersExecuted + 1 =>
    \A u \in Users, i \in OrderIds :
      (orders[u][i].isActive /\ ~orders'[u][i].isActive) =>
        now < orders[u][i].expiresAt

C32_ExecutionStrictlyBeforeExpiry ==
  /\ []C32_ExpiryDecides
  /\ [][C32_ExpiredStaysActiveAndLocked /\ C32_ExecutedOnlyBeforeExpiry]_vars

\* At its expiry time an order is still active with the price condition
\* met and a session granted, and the session's call fails as expired.
C32_Witness ==
  \E u \in Users, i \in OrderIds :
    /\ orders[u][i].isActive
    /\ now = orders[u][i].expiresAt
    /\ PriceConditionMet(orders[u][i], mockPrice)
    /\ loAuthorizedSessions[u]["s1"]
    /\ ExecuteLimitOrderError(u, "s1", i) = "Order expired"

\* A day into its validity of 365 days an order is open to execution by the
\* session.
C32_WitnessBeforeExpiry ==
  \E u \in Users, i \in OrderIds :
    /\ orders[u][i].isActive
    /\ now = 2 /\ orders[u][i].expiresAt = 366
    /\ loAuthorizedSessions[u]["s1"]
    /\ ExecuteLimitOrderError(u, "s1", i) = "ok"

\* ---------------------------------------------------------------------
\* C33: canExecute agrees with executeLimitOrder.  In every state
\* canExecute(user, orderId) returns true exactly when
\* executeLimitOrder(user, orderId) called by the user would succeed, and
\* when it returns false its reason ("Order not active", "Order expired",
\* "Price condition not met", checked in that order) is the error
\* executeLimitOrder would raise; canExecute changes no state.
C33_CanExecuteAgreesWithExecute ==
  \A u \in Users, i \in OrderIds :
    LET r == canExecute(u, i)
        e == ExecuteLimitOrderError(u, u, i)
        o == orders[u][i]
    IN
    /\ r.executable <=> e = "ok"
    /\ r.executable => r.reason = "Ready to execute"
    /\ ~r.executable => r.reason = e
    /\ ~o.isActive => r.reason = "Order not active"
    /\ (o.isActive /\ now >= o.expiresAt) => r.reason = "Order expired"
    /\ (/\ o.isActive /\ now < o.expiresAt
        /\ ~(IF o.isBuy THEN mockPrice <= o.limitPrice
                        ELSE mockPrice >= o.limitPrice))
         => r.reason = "Price condition not met"

\* An order that canExecute reported ready was executed by its owner, and
\* canExecute now reports it as not active although it has also expired.
C33_Witness ==
  \E u \in Users, i \in OrderIds :
    /\ executions[u][i] = 1
    /\ now >= orders[u][i].expiresAt
    /\ canExecute(u, i) = [executable |-> FALSE, reason |-> "Order not active"]

\* ---------------------------------------------------------------------
\* C34: a successful executeLimitOrder(user, orderId) marks the order
\* inactive, strictly increases the owner's (user, tokenOut) deposit by
\* amountOut = amountIn * currentPrice * 98 / (100 * 10^18) (integer
\* division, the same for buy and sell), does not refund amountIn to the
\* (user, tokenIn) slot, and credits nothing to the calling session or to
\* any other user.  Amounts are in wei and prices in units of 10^18, so
\* amountOut is (amountIn * price * 98) \div 100.
\*
\* As stated, with the strict increase:
C34_ExecutionStrictlyIncreasesTokenOut ==
  [][totalOrdersExecuted' = totalOrdersExecuted + 1 =>
      \A u \in Users, c \in Addr, i \in OrderIds :
        (ExecuteLimitOrderError(u, c, i) = "ok" /\ ExecuteLimitOrder(u, c, i)) =>
          LET o == orders[u][i] IN
          /\ ~orders'[u][i].isActive
          /\ loDeposits'[u][o.tokenOut] > loDeposits[u][o.tokenOut]
          /\ loDeposits' = [loDeposits EXCEPT ![u][o.tokenOut] =
                              @ + (o.amountIn * mockPrice * 98) \div 100]]_vars

\* As it holds: the credit is exactly amountOut, which is positive exactly
\* when amountIn * price * 98 reaches 100 (times 10^18) and zero below that.
C34_ExecutionCreditsAmountOut ==
  [][totalOrdersExecuted' = totalOrdersExecuted + 1 =>
      \A u \in Users, c \in Addr, i \in OrderIds :
        (ExecuteLimitOrderError(u, c, i) = "ok" /\ ExecuteLimitOrder(u, c, i)) =>
          LET o == orders[u][i]
              amountOut == (o.amountIn * mockPrice * 98) \div 100
          IN
          /\ ~orders'[u][i].isActive
          /\ orders' = [orders EXCEPT ![u][i].isActive = FALSE]
          /\ loDeposits'[u][o.tokenOut] = loDeposits[u][o.tokenOut] + amountOut
          /\ (loDeposits'[u][o.tokenOut] > loDeposits[u][o.tokenOut])
               <=> (o.amountIn * mockPrice * 98 >= 100)
          /\ o.tokenIn # o.tokenOut =>
               loDeposits'[u][o.tokenIn] = loDeposits[u][o.tokenIn]
          /\ \A v \in Addr, t \in Tokens :
               (v # u \/ t # o.tokenOut) => loDeposits'[v][t] = loDeposits[v][t]
          /\ UNCHANGED loBalance]_vars

\* A buy order of 1 wei was executed at the price 1 * 10^18: the order is
\* inactive, its amount is gone and nothing was credited.
C34_Witness ==
  \E u \in Users, i \in OrderIds :
    /\ executions[u][i] = 1
    /\ ~orders[u][i].isActive
    /\ mockPrice = 1
    /\ loDeposits[u][orders[u][i].tokenOut] = 0
    /\ loDeposits[u][orders[u][i].tokenIn] = 0

\* ---------------------------------------------------------------------
\* C35: in LimitOrderAgent, ETH deposited through deposit{value: v}(token,
\* v) under a token key other than the zero address (WETH in the tests) can
\* be withdrawn with withdraw(address(0), a) for a <= v: the withdrawal
\* succeeds and getDeposit(user, token) drops by a.
C35_WithdrawableAfterDeposit ==
  \A c \in Users, t \in Tokens \ {Null}, v \in AmountInputs \ {0} :
    (loDeposits'[c][t] = loDeposits[c][t] + v /\ LoDeposit(c, t, v, v, TRUE)) =>
      \A a \in 1..v : LoWithdrawError(c, Null, a, TRUE)' = "ok"

C35_WithdrawLowersTokenSlot ==
  \A c \in Users, t \in Tokens \ {Null}, a \in 1..MaxLoDeposit :
    (/\ loDeposits[c][t] >= a
     /\ loDeposits'[c] # loDeposits[c]
     /\ LoWithdraw(c, Null, a, TRUE)) =>
      loDeposits'[c][t] = loDeposits[c][t] - a

RECURSIVE C36_Sum(_, _)
C36_Sum(f, S) ==
  IF S = {} THEN 0
  ELSE LET x == CHOOSE y \in S : TRUE IN f[x] + C36_Sum(f, S \ {x})

C36_Slots == Users \X OrderIds

C36_StatsCount ==
  /\ getStats[1] = totalOrdersCreated
  /\ getStats[2] = totalOrdersExecuted
  /\ getStats[3] = totalOrdersCreated - totalOrdersExecuted
  /\ totalOrdersCreated = C36_Sum(orderCount, Users)
  /\ totalOrdersCreated
       = Cardinality({s \in C36_Slots : orders[s[1]][s[2]] # NoOrder})
  /\ totalOrdersExecuted
       = C36_Sum([s \in C36_Slots |-> executions[s[1]][s[2]]], C36_Slots)
  /\ totalOrdersExecuted <= totalOrdersCreated
  /\ getStats[3] >= Cardinality({s \in C36_Slots : orders[s[1]][s[2]].isActive})

C36_CountersMoveByOne ==
  /\ totalOrdersCreated' \in {totalOrdersCreated, totalOrdersCreated + 1}
  /\ totalOrdersExecuted' \in {totalOrdersExecuted, totalOrdersExecuted + 1}
  /\ totalOrdersCreated' = totalOrdersCreated + 1 <=> orderCount' # orderCount
  /\ totalOrdersExecuted' = totalOrdersExecuted + 1 <=> executions' # executions

C36_CancelChangesNoStat ==
  getStats' = getStats
  \/ \A c \in Users, i \in OrderIds : ~CancelLimitOrder(c, i)

C36_StatsAreCounters ==
  /\ []C36_StatsCount
  /\ [][C36_CountersMoveByOne /\ C36_CancelChangesNoStat]_vars

\* Two orders were created, one executed and the other cancelled: no order
\* is active and getStats reports (2, 1, 1).
C36_Witness ==
  /\ getStats = <<2, 1, 1>>
  /\ \A s \in C36_Slots : ~orders[s[1]][s[2]].isActive

\* ---------------------------------------------------------------------
\* C37: in LimitOrderAgent, setMockPrice, transferOwnership and
\* emergencyWithdraw succeed only when called by the current owner and fail
\* with "Only owner" for every other caller without changing state;
\* transferOwnership(0) fails with "Invalid address"; after
\* transferOwnership(n) the previous owner loses and n gains these rights;
\* hence the price that order execution reads changes only through an owner
\* call.
C37_OnlyOwnerPasses ==
  \A c \in LoAddr :
    IF c = loOwner
    THEN /\ SetMockPriceError(c) = "ok"
         /\ TransferOwnershipError(c, Null) = "Invalid address"
         /\ \A n \in Addr : TransferOwnershipError(c, n) = "ok"
         /\ EmergencyWithdrawError(c, TRUE) = "ok"
    ELSE /\ SetMockPriceError(c) = "Only owner"
         /\ \A n \in Addr \cup {Null} : TransferOwnershipError(c, n) = "Only owner"
         /\ \A ok \in BOOLEAN : EmergencyWithdrawError(c, ok) = "Only owner"

C37_BalanceSweptByOwnerCall ==
  (loBalance' < loBalance /\ loDeposits' = loDeposits) =>
    /\ EmergencyWithdrawError(loOwner, TRUE) = "ok"
    /\ EmergencyWithdraw(loOwner, TRUE)

C37_PriceAndOwnerMoveByOwnerCall ==
  /\ mockPrice' = mockPrice
     \/ (SetMockPriceError(loOwner) = "ok" /\ SetMockPrice(loOwner, mockPrice'))
  /\ loOwner' = loOwner
     \/ \E n \in Addr :
          /\ n = loOwner'
          /\ TransferOwnership(loOwner, n)
          /\ \E old \in LoAddr :
               old = loOwner /\ SetMockPriceError(old)' = "Only owner"
          /\ SetMockPriceError(n)' = "ok"

C37_OwnerOnlyFunctions ==
  /\ []C37_OnlyOwnerPasses
  /\ [][C37_BalanceSweptByOwnerCall /\ C37_PriceAndOwnerMoveByOwnerCall]_vars

\* Ownership has passed from the deployer to u2 and the price has been
\* changed.
C37_Witness ==
  /\ loOwner = "u2"
  /\ mockPrice # InitialMockPrice
  /\ SetMockPriceError(Deployer) = "Only owner"

\* ---------------------------------------------------------------------
\* C38: Agent's ETH accounting.  In every reachable state between calls
\* the Agent contract's ETH balance equals the sum of all users' deposits
\* plus 0.1 ether times the number of successful bridges; a successful
\* checkGasAndBridge forwards only the quoted fee to the transport, so each
\* debited 0.1 ether stays in the contract and no later operation by any
\* caller can pay it out.
\*
\* The sum of f over the addresses in S.
RECURSIVE C38_Sum(_, _)
C38_Sum(f, S) ==
  IF S = {} THEN 0
  ELSE LET x == CHOOSE y \in S : TRUE IN f[x] + C38_Sum(f, S \ {x})

C38_Bridged == AmountToBridge * C38_Sum(bridgeInitiated, DOMAIN bridgeInitiated)

C38_BalanceIsDepositsPlusBridged ==
  /\ stack = <<>> =>
       agentBalance = C38_Sum(deposits, DOMAIN deposits) + C38_Bridged
  /\ agentBalance >= C38_Bridged

C38_BridgedAmountNeverPaidOut ==
  (stack = <<>> /\ stack' = <<>>) =>
    agentBalance' - C38_Sum(deposits', DOMAIN deposits)
      >= agentBalance - C38_Sum(deposits, DOMAIN deposits)

C38_EthAccounting ==
  /\ []C38_BalanceIsDepositsPlusBridged
  /\ [][C38_BridgedAmountNeverPaidOut]_vars

\* After a successful bridge every deposit is withdrawn or used up, and the
\* contract still holds the 0.1 ether of the bridge.
C38_Witness ==
  /\ stack = <<>>
  /\ C38_Sum(bridgeInitiated, DOMAIN bridgeInitiated) = 1
  /\ C38_Sum(deposits, DOMAIN deposits) = 0
  /\ agentBalance = AmountToBridge
  /\ last.op = "withdraw" /\ last.err = "ok"

\* ---------------------------------------------------------------------
\* C39: locked funds of an expired order stay recoverable.  Expiry alone
\* never changes an order or any deposit (no automatic refund), and for
\* every active order, expired or not and whatever the price,
\* cancelLimitOrder called by its owner succeeds and refunds amountIn; so
\* from every reachable state with an active order there is a continuation
\* in which the owner regains the locked amount.
C39_OwnerCanCancel ==
  \A u \in Users, i \in OrderIds :
    orders[u][i].isActive =>
      /\ CancelLimitOrderError(u, i) = "ok"
      /\ ENABLED (/\ CancelLimitOrder(u, i)
                  /\ ~orders'[u][i].isActive
                  /\ loDeposits'[u][orders[u][i].tokenIn]
                       = loDeposits[u][orders[u][i].tokenIn]
                         + orders[u][i].amountIn)

C39_ExpiryChangesNothing ==
  now' # now => UNCHANGED <<orders, loDeposits, loBalance>>

C39_CancelOfExpiredRefunds ==
  (/\ orders' # orders
   /\ totalOrdersCreated' = totalOrdersCreated
   /\ totalOrdersExecuted' = totalOrdersExecuted) =>
    \A u \in Users, i \in OrderIds :
      (orders[u][i].isActive /\ ~orders'[u][i].isActive) =>
        /\ CancelLimitOrder(u, i)
        /\ loDeposits' = [loDeposits EXCEPT ![u][orders[u][i].tokenIn] =
                            @ + orders[u][i].amountIn]

C39_ExpiredOrderRecoverable ==
  /\ []C39_OwnerCanCancel
  /\ [][C39_ExpiryChangesNothing /\ C39_CancelOfExpiredRefunds]_vars

\* An order is at or past its expiry, still active with its amount locked,
\* and its owner's cancellation would pass.
C39_Witness ==
  \E u \in Users, i \in OrderIds :
    /\ orders[u][i].isActive
    /\ now >= orders[u][i].expiresAt
    /\ loDeposits[u][orders[u][i].tokenIn] = 0
    /\ ExecuteLimitOrderError(u, u, i) = "Order expired"
    /\ CancelLimitOrderError(u, i) = "ok"

\* ---------------------------------------------------------------------
\* C40: LimitOrderAgent deposits are backed.  In every reachable state the
\* contract's ETH balance is at least the sum over all users of their
\* address(0)-keyed deposits, so a withdraw(address(0), a) with a no larger
\* than the caller's recorded deposit never fails for lack of contract
\* funds; this holds across deposit, receive, withdraw, createLimitOrder,
\* cancelLimitOrder, executeLimitOrder and the owner's emergencyWithdraw.
\*
\* The sum of the address(0)-keyed deposits of the accounts in S.
RECURSIVE C40_EthDeposits(_)
C40_EthDeposits(S) ==
  IF S = {} THEN 0
  ELSE LET x == CHOOSE y \in S : TRUE IN
       loDeposits[x][Null] + C40_EthDeposits(S \ {x})

C40_DepositsBacked ==
  /\ loBalance >= C40_EthDeposits(DOMAIN loDeposits)
  /\ \A u \in Users : \A a \in 1..loDeposits[u][Null] :
       LoWithdrawError(u, Null, a, TRUE) = "ok"

\* A user's address(0)-keyed deposit is recorded while the contract holds
\* no ETH at all, and the user's withdrawal of it fails.
C40_Witness ==
  \E u \in Users :
    /\ loDeposits[u][Null] > 0
    /\ loBalance = 0
    /\ LoWithdrawError(u, Null, loDeposits[u][Null], TRUE) = "ETH transfer failed"

====
